---- MODULE Spec2Model ----
(***************************************************************************)
(* The document / chunk review pipeline of kb-curator-standalone.          *)
(*                                                                         *)
(* The state is the rows of the hosted store (documents, document_chunks,  *)
(* kb_vectors, curation_queue, profiles, knowledge_bases) together with    *)
(* the asynchronous calls that are in flight.  Every `await` on the store  *)
(* is one atomic step; a call that awaits several times is several steps,  *)
(* so calls of different sessions interleave between their awaits.  A call *)
(* that returned or threw stays in its slot, with its result, until its    *)
(* caller has taken the result.                                            *)
(*                                                                         *)
(* The operations are checked in several specifications over the same      *)
(* actions: Spec (the pipeline from upload to completion, call after       *)
(* call), SpecEnrich (enrichment with every outcome of the flow),          *)
(* SpecSubmit (submission while enrichment runs beside it), SpecAdmin (the *)
(* admin gates and screens), SpecAuth (the sign-in state), SpecUpload      *)
(* (uploads and deletions by every kind of caller), SpecScenario (the      *)
(* review of a document from upload to completion as the callers are meant *)
(* to run it) and SpecLock (enrichment from two places at once;            *)
(* SpecLockFair adds that a started enrichment runs on).                   *)
(***************************************************************************)
EXTENDS Integers, Sequences, FiniteSets, TLC

(***************************************************************************)
(* Bounds of the model.                                                    *)
(***************************************************************************)
MaxDocs    == 1   \* documents ever uploaded
MaxChunks  == 2   \* chunks the gateway returns for one run
MaxRows    == 2   \* document_chunks rows ever inserted
MaxCalls   == 2   \* calls in flight at the same time
MaxCount   == 2   \* cap of approved_chunks / rejected_chunks
MaxVectors == 2   \* kb_vectors rows ever inserted
MaxObjects == 2   \* objects ever uploaded to the storage bucket
MaxQueue   == 3   \* curation_queue rows ever inserted

DocIds    == 1 .. MaxDocs
ChunkIds  == 1 .. MaxRows
VectorIds == 1 .. MaxVectors
CallIds   == 1 .. MaxCalls

(***************************************************************************)
(* Values.                                                                 *)
(***************************************************************************)
NULL == "null"

ProcessingStatus == {"pending", "processing", "review", "submitted", "completed", "failed"}
ReviewStatus     == {"pending", "approved", "rejected", "filtered", "enriching", "draft"}
QueueStatus      == {"pending", "in_progress", "completed"}
UserRole         == {"user", "curator", "admin"}

\* knowledge-base ids (doc_type) and source urls used as inputs
KbIds      == {"fhir", "vbc"}
SourceUrls == {NULL, "https://x"}

\* accounts: an active admin, an active curator, a deactivated admin, a user
Users     == {"ada", "cy", "ian", "uma"}
NoSession == "anon"
Callers   == Users \cup {NoSession}
\* the user ids the reviewer passes to the chunk operations
Reviewers == {"cy"}
\* curator notes typed into the reviewer ('' is stored as null)
NotesInputs == {"", "note"}
\* the slot of the session that works call after call, and the slot of the
\* enrichment that runs beside it
OneSession == {1}
Background == {2}

VARIABLES
    documents,       \* documents rows:        id -> row
    chunks,          \* document_chunks rows:  id -> row
    kb_vectors,      \* kb_vectors rows:       id -> row
    curation_queue,  \* curation_queue rows:   id -> row
    profiles,        \* profiles rows:         user id -> row
    knowledge_bases, \* knowledge_bases rows: the set of ids
    nextId,          \* the next fresh row id of documents, document_chunks, kb_vectors
    calls,           \* the calls in flight:   slot -> frame
    auth,            \* the state of the hooks of one browser: useAuth (user,
                     \* profile, loading, the effect, the fetches) and useCurator
    storage          \* the number of objects in the storage bucket 'documents'

vars == <<documents, chunks, kb_vectors, curation_queue, profiles, knowledge_bases,
          nextId, calls, auth, storage>>

store == <<documents, chunks, kb_vectors, curation_queue, profiles, knowledge_bases,
           storage>>

(***************************************************************************)
(* JSON objects (ai_metadata, the gateway's metadata) are functions from   *)
(* the keys that are present to their values; scores are in tenths.        *)
(***************************************************************************)
NullMeta  == [null |-> TRUE]          \* the SQL / JS null
EmptyMeta == <<>>                     \* the JS object {}

\* a || {}
OrEmpty(m) == IF m = NullMeta THEN EmptyMeta ELSE m

\* { ...a, ...b }
Spread(a, b) ==
    [k \in (DOMAIN a) \cup (DOMAIN b) |-> IF k \in DOMAIN b THEN b[k] ELSE a[k]]

\* obj.key of a possibly missing key (undefined is NULL)
Field(m, k) == IF k \in DOMAIN m THEN m[k] ELSE NULL

\* the rows of a table without the rows that satisfy a filter
Without(table, gone) == [id \in (DOMAIN table) \ gone |-> table[id]]

\* table with one more row
WithRow(table, id, row) ==
    [i \in (DOMAIN table) \cup {id} |-> IF i = id THEN row ELSE table[i]]

\* UPDATE table SET fields WHERE id = id  (no row: nothing happens)
Update(table, id, fields) ==
    IF id \in DOMAIN table
    THEN [table EXCEPT ![id] = Spread(table[id], fields)]
    ELSE table

(***************************************************************************)
(* Call frames.                                                            *)
(***************************************************************************)
Idle ==
    [op |-> "idle", pc |-> "idle", doc |-> 0, chunk |-> 0, user |-> NULL,
     notes |-> NULL, meta |-> NullMeta, batch |-> <<>>, n |-> 0, err |-> NULL,
     kb |-> NULL, url |-> NULL, was |-> NULL, list |-> <<>>, rows |-> {},
     aiMetadata |-> NullMeta]

IsIdle(i) == calls[i].op = "idle"

\* a session starts a call when its previous call is over
FreeSlot(i) == IsIdle(i)

Begin(i, frame) == calls' = [calls EXCEPT ![i] = Spread(Idle, frame)]
Goto(i, fields) == calls' = [calls EXCEPT ![i] = Spread(calls[i], fields)]
End(i)          == calls' = [calls EXCEPT ![i] = Idle]

\* the call returns (err is NULL) or throws: its result waits for the caller
Done(i, result) == calls' = [calls EXCEPT ![i] = Spread(Idle, Spread(result, [pc |-> "done"]))]

\* the caller takes the result of a call
Return(i) ==
    /\ calls[i].pc = "done"
    /\ End(i)
    /\ UNCHANGED <<documents, chunks, kb_vectors, curation_queue, profiles,
                   knowledge_bases, nextId, auth, storage>>

(***************************************************************************)
(* The store after the migrations ran and the accounts were set up.        *)
(***************************************************************************)
SeedProfiles ==
    [u \in Users |->
        CASE u = "ada" -> [role |-> "admin",   is_active |-> TRUE,  assigned_kbs |-> {}]
          [] u = "cy"  -> [role |-> "curator", is_active |-> TRUE,  assigned_kbs |-> {"fhir"}]
          [] u = "ian" -> [role |-> "admin",   is_active |-> FALSE, assigned_kbs |-> {}]
          [] OTHER     -> [role |-> "user",    is_active |-> TRUE,  assigned_kbs |-> {}]]

SeedQueue ==
    [q \in {1, 2} |->
        IF q = 1 THEN [kb_id |-> "fhir", url |-> "https://x", status |-> "pending"]
                 ELSE [kb_id |-> "vbc",  url |-> "https://x", status |-> "pending"]]

\* the hook before anybody signed in
NoProfile == [null |-> TRUE]

\* useCurator before a document is loaded, no handler of the reviewer running
NoReview ==
    [documentId |-> 0, chunks |-> <<>>, currentChunkIndex |-> 0,
     stats |-> [total |-> 0, pending |-> 0], error |-> FALSE,
     handler |-> [pc |-> "idle"], timers |-> {}]

Init ==
    /\ documents = <<>>
    /\ chunks = <<>>
    /\ kb_vectors = <<>>
    /\ curation_queue = SeedQueue
    /\ profiles = SeedProfiles
    /\ knowledge_bases = KbIds
    /\ nextId = [doc |-> 1, chunk |-> 1, vector |-> 1, queue |-> 3]
    /\ calls = [i \in CallIds |-> Idle]
    /\ auth = [user |-> NULL, profile |-> NoProfile, loading |-> TRUE,
               run |-> 0, safetyTimeout |-> 0, dep |-> NULL,
               initialize |-> "idle", initialSession |-> NULL,
               profilePromiseCache |-> <<>>, fetches |-> <<>>,
               curator |-> NoReview]
    /\ storage = 0

(***************************************************************************)
(* uploadDocument: the duplicate-source guard and the new documents row.   *)
(***************************************************************************)
DuplicateSource(docType, sourceUrl) ==
    \E d \in DOMAIN documents :
        documents[d].doc_type = docType /\ documents[d].source_url = sourceUrl

NewDocument(docType, sourceUrl) ==
    [doc_type |-> docType, source_url |-> sourceUrl,
     processing_status |-> "pending", total_chunks |-> 0, approved_chunks |-> 0,
     rejected_chunks |-> 0, error_message |-> NULL]

\* a bucket that takes objects from anybody
AnyoneCanUpload(caller) == TRUE

\* the storage policy "Curators can upload documents": who may insert an object
CanUpload(caller) ==
    /\ caller \in DOMAIN profiles
    /\ profiles[caller].role \in {"curator", "admin"}
    /\ profiles[caller].is_active

\* a guard that finds no existing row
NoDuplicateCheck(docType, sourceUrl) == FALSE

\* the duplicate check at the head of uploadDocument: if (sourceUrl) { ... }
DuplicateCheck(docType, sourceUrl) ==
    sourceUrl # NULL /\ DuplicateSource(docType, sourceUrl)

\* the documents insert fails: fk_documents_kb, unique_kb_source_url
DocError(docType, sourceUrl) ==
    \/ docType \notin knowledge_bases
    \/ sourceUrl # NULL /\ DuplicateSource(docType, sourceUrl)

\* what the guard of uploadDocument throws
AlreadyUploaded == "This document has already been uploaded for this knowledge base."

\* the call and its arguments, as its result is handed back
UploadCall(caller, docType, sourceUrl, result) ==
    Spread([op |-> "uploadDocument", user |-> caller, kb |-> docType, url |-> sourceUrl],
           result)

\* uploadDocument of a file of an allowed type and size
UploadDocument(i, caller, docType, sourceUrl) ==
    /\ FreeSlot(i)
    /\ IF DuplicateCheck(docType, sourceUrl)
       THEN /\ Done(i, UploadCall(caller, docType, sourceUrl, [err |-> AlreadyUploaded]))
            /\ UNCHANGED <<documents, nextId, storage>>
       ELSE IF ~CanUpload(caller)
       THEN /\ Done(i, UploadCall(caller, docType, sourceUrl, [err |-> "Upload failed"]))
            /\ UNCHANGED <<documents, nextId, storage>>
       ELSE /\ storage < MaxObjects
            /\ storage' = storage + 1
            /\ IF caller = NoSession
               THEN /\ Done(i, UploadCall(caller, docType, sourceUrl,
                                          [err |-> "User not authenticated"]))
                    /\ UNCHANGED <<documents, nextId>>
               ELSE IF DocError(docType, sourceUrl)
               THEN /\ Done(i, UploadCall(caller, docType, sourceUrl,
                                          [err |-> "Failed to create document record"]))
                    /\ UNCHANGED <<documents, nextId>>
               ELSE /\ nextId.doc <= MaxDocs
                    /\ documents' = WithRow(documents, nextId.doc,
                                            NewDocument(docType, sourceUrl))
                    /\ nextId' = [nextId EXCEPT !.doc = @ + 1]
                    /\ Done(i, UploadCall(caller, docType, sourceUrl,
                                          [doc |-> nextId.doc]))
    /\ UNCHANGED <<chunks, kb_vectors, curation_queue, profiles, knowledge_bases, auth>>

(***************************************************************************)
(* processAndStoreDocument.                                                *)
(***************************************************************************)
\* what the selected processor can return: for each chunk, its `filtered` flag
Batches == UNION {[1 .. n -> BOOLEAN] : n \in 0 .. MaxChunks}

\* a count that forgets the filter: what total_chunks must not be
AllChunks(batch) == Len(batch)

\* chunks.filter((c) => !c.filtered).length
ActiveChunks(batch) == Cardinality({k \in DOMAIN batch : ~batch[k]})

\* the comprehensive metadata a chunk is inserted with
InsertMetadata(docType) == [document_type |-> docType, last_updated |-> "inserted"]

NoScore == -1

\* chunks.map((chunk, idx) => ({...}))
ChunkInsert(d, idx, filtered) ==
    [document_id |-> d, chunk_index |-> idx, is_filtered |-> filtered,
     review_status |-> IF filtered THEN "filtered" ELSE "pending",
     ai_metadata |-> InsertMetadata(documents[d].doc_type),
     confidence_score |-> NoScore, curator_notes |-> NULL, reviewed_by |-> NULL]

\* documents ids a caller can name: the rows that were ever created
KnownDocs   == 1 .. (nextId.doc - 1)
KnownChunks == 1 .. (nextId.chunk - 1)

ProcessStart(i, d) ==
    /\ FreeSlot(i)
    /\ d \in KnownDocs
    /\ documents' = Update(documents, d, [processing_status |-> "processing"])
    /\ Begin(i, [op |-> "processAndStoreDocument", pc |-> "gateway", doc |-> d])
    /\ UNCHANGED <<chunks, kb_vectors, curation_queue, profiles, knowledge_bases,
                   nextId, auth, storage>>

\* a test that takes an empty result for a result
NeverEmpty(batch) == FALSE

\* !chunks || chunks.length === 0
NoChunks(batch) == Len(batch) = 0

\* the provider returns a batch, or raises
ProcessGateway(i, raised, batch) ==
    /\ calls[i].op = "processAndStoreDocument" /\ calls[i].pc = "gateway"
    /\ IF raised
       THEN Goto(i, [pc |-> "catch", err |-> "Invalid response from document processor flow"])
       ELSE IF NoChunks(batch)
       THEN Goto(i, [pc |-> "catch", err |-> "No chunks returned from document processing"])
       ELSE Goto(i, [pc |-> "insert", batch |-> batch])
    /\ UNCHANGED <<store, nextId, auth>>

\* the document processors of the settings table
Processors == {"flowise", "direct_gemini"}

\* how the calls a processor makes can end
ProcessOutcomes ==
    {"answer", "provider_error", "unparseable", "not_configured", "chunking_failed"}

\* fallbackChunking: the sentences of the text packed into chunks, none of
\* them filtered; a text without a sentence gives no chunk.  The text is
\* given by the chunks it fills.
fallbackChunking(text) == [k \in DOMAIN text |-> FALSE]

\* chunkTextWithGemini: the model's chunks with filtered set to false, or the
\* fallback when the call or its parsing fails
chunkTextWithGemini(outcome, batch) ==
    IF outcome = "answer" THEN [k \in DOMAIN batch |-> FALSE]
    ELSE fallbackChunking(batch)

\* processDocumentWithGemini: a failed extraction is thrown on, a failed
\* chunking is not
processDocumentWithGemini(outcome, batch) ==
    IF outcome \in {"provider_error", "not_configured"}
    THEN [raised |-> TRUE, message |-> "Failed to extract text from document",
          chunks |-> <<>>]
    ELSE [raised |-> FALSE, message |-> NULL,
          chunks |-> chunkTextWithGemini(outcome, batch)]

\* processDocument of the flow: every failure is thrown on
processDocument(outcome, batch) ==
    CASE outcome = "not_configured" ->
            [raised |-> TRUE, message |-> "FLOW1_ID not configured", chunks |-> <<>>]
      [] outcome = "provider_error" ->
            [raised |-> TRUE, message |-> "Flowise API error", chunks |-> <<>>]
      [] outcome = "answer" ->
            [raised |-> FALSE, message |-> NULL, chunks |-> batch]
      [] OTHER ->
            [raised |-> TRUE, message |-> "Invalid response from document processor flow",
             chunks |-> <<>>]

\* the gateway step of processAndStoreDocument with the processor it selected
ProcessWith(i, processor, outcome, batch) ==
    /\ calls[i].op = "processAndStoreDocument" /\ calls[i].pc = "gateway"
    /\ LET r == IF processor = "direct_gemini"
                THEN processDocumentWithGemini(outcome, batch)
                ELSE processDocument(outcome, batch)
       IN  IF r.raised
           THEN Goto(i, [pc |-> "catch", err |-> r.message, was |-> processor,
                         notes |-> outcome])
           ELSE IF NoChunks(r.chunks)
           THEN Goto(i, [pc |-> "catch", was |-> processor, notes |-> outcome,
                         err |-> "No chunks returned from document processing"])
           ELSE Goto(i, [pc |-> "insert", batch |-> r.chunks, was |-> processor,
                         notes |-> outcome])
    /\ UNCHANGED <<store, nextId, auth>>

\* one INSERT of the whole batch: all rows or none
ProcessInsert(i, chunksError) ==
    /\ calls[i].op = "processAndStoreDocument" /\ calls[i].pc = "insert"
    /\ LET d     == calls[i].doc
           batch == calls[i].batch
           n     == Len(batch)
       IN  IF chunksError \/ d \notin DOMAIN documents
           THEN /\ Goto(i, [pc |-> "catch", err |-> "Failed to insert chunks"])
                /\ UNCHANGED <<chunks, nextId>>
           ELSE /\ nextId.chunk + n - 1 <= MaxRows
                /\ chunks' =
                     [c \in (DOMAIN chunks) \cup (nextId.chunk .. nextId.chunk + n - 1) |->
                        IF c \in DOMAIN chunks THEN chunks[c]
                        ELSE ChunkInsert(d, c - nextId.chunk, batch[c - nextId.chunk + 1])]
                /\ nextId' = [nextId EXCEPT !.chunk = @ + n]
                /\ Goto(i, [pc |-> "review"])
    /\ UNCHANGED <<documents, kb_vectors, curation_queue, profiles, knowledge_bases, auth, storage>>

ProcessReview(i) ==
    /\ calls[i].op = "processAndStoreDocument" /\ calls[i].pc = "review"
    /\ documents' = Update(documents, calls[i].doc,
                           [processing_status |-> "review",
                            total_chunks |-> ActiveChunks(calls[i].batch)])
    /\ Done(i, [op |-> "processAndStoreDocument", doc |-> calls[i].doc,
                n |-> ActiveChunks(calls[i].batch), was |-> calls[i].was,
                notes |-> calls[i].notes])
    /\ UNCHANGED <<chunks, kb_vectors, curation_queue, profiles, knowledge_bases,
                   nextId, auth, storage>>

\* a catch block that throws on and leaves the document as it is
ProcessCatchNoMark(i) ==
    /\ calls[i].op = "processAndStoreDocument" /\ calls[i].pc = "catch"
    /\ Done(i, [op |-> "processAndStoreDocument", doc |-> calls[i].doc,
                err |-> calls[i].err, was |-> calls[i].was])
    /\ UNCHANGED <<store, nextId, auth>>

\* a catch block that marks the document and drops the reason
ProcessCatchNoReason(i) ==
    /\ calls[i].op = "processAndStoreDocument" /\ calls[i].pc = "catch"
    /\ documents' = Update(documents, calls[i].doc, [processing_status |-> "failed"])
    /\ Done(i, [op |-> "processAndStoreDocument", doc |-> calls[i].doc,
                err |-> calls[i].err, was |-> calls[i].was])
    /\ UNCHANGED <<chunks, kb_vectors, curation_queue, profiles, knowledge_bases,
                   nextId, auth, storage>>

ProcessCatch(i) ==
    /\ calls[i].op = "processAndStoreDocument" /\ calls[i].pc = "catch"
    /\ documents' = Update(documents, calls[i].doc,
                           [processing_status |-> "failed",
                            error_message |-> calls[i].err])
    /\ Done(i, [op |-> "processAndStoreDocument", doc |-> calls[i].doc,
                err |-> calls[i].err, was |-> calls[i].was])
    /\ UNCHANGED <<chunks, kb_vectors, curation_queue, profiles, knowledge_bases,
                   nextId, auth, storage>>

(***************************************************************************)
(* The enrichment gateway (flowise.ts: enrichChunk).                       *)
(***************************************************************************)
DefaultRelevance == 5    \* relevance_score: 0.5
DefaultLowConfidence == 3 \* confidence: 0.3
FallbackScore == 5       \* || 0.5

\* the metadata returned when the provider fails or its answer cannot be parsed
DefaultMetadata ==
    [topic |-> "Unknown", subtopic |-> "", relevance_score |-> DefaultRelevance,
     use_cases |-> <<>>, key_concepts |-> <<>>, confidence |-> DefaultLowConfidence]

\* what the provider can answer when it works
EnrichResults ==
    { [topic |-> "Interop", relevance_score |-> 8, confidence |-> 9] }

\* how a call of the enrichment flow can end
EnrichOutcomes == {"answer", "provider_error", "unparseable", "not_configured"}

\* enrichChunk: whether it throws, what it returns, what it wrote to the console
enrichChunk(outcome, answer) ==
    CASE outcome = "not_configured" ->
            [raised |-> TRUE,  value |-> NullMeta, logged |-> NULL]
      [] outcome = "answer" ->
            [raised |-> FALSE, value |-> answer, logged |-> NULL]
      [] outcome = "provider_error" ->
            [raised |-> FALSE, value |-> DefaultMetadata,
             logged |-> "Error enriching chunk"]
      [] OTHER ->
            [raised |-> FALSE, value |-> DefaultMetadata,
             logged |-> "Could not parse Flowise text response as JSON"]

\* a gateway that hands a provider error on to its caller
enrichRethrows(outcome, answer) ==
    CASE outcome = "answer" ->
            [raised |-> FALSE, value |-> answer, logged |-> NULL]
      [] outcome = "provider_error" ->
            [raised |-> TRUE, value |-> NullMeta, logged |-> NULL]
      [] OTHER ->
            [raised |-> FALSE, value |-> DefaultMetadata, logged |-> NULL]

\* enrichChunkWithGemini: generateContent throwing, a response without a JSON
\* object and JSON.parse throwing all end in the catch block
enrichChunkWithGemini(outcome, answer) ==
    CASE outcome = "answer" ->
            [raised |-> FALSE, value |-> answer, logged |-> NULL]
      [] OTHER ->
            [raised |-> FALSE, value |-> DefaultMetadata,
             logged |-> "Error enriching chunk with Gemini"]

\* enrichChunkWithOpenAI: the same shape, with 'No content from OpenAI'
enrichChunkWithOpenAI(outcome, answer) ==
    CASE outcome = "answer" ->
            [raised |-> FALSE, value |-> answer, logged |-> NULL]
      [] OTHER ->
            [raised |-> FALSE, value |-> DefaultMetadata,
             logged |-> "Error enriching with OpenAI"]

\* the three implementations of the gateway's enrich operation
Gateways == {"enrichChunk", "enrichChunkWithGemini", "enrichChunkWithOpenAI"}

\* how a call of each of them can end: only the flow needs a configured id
GatewayOutcomes(gateway) ==
    IF gateway = "enrichChunk" THEN EnrichOutcomes
    ELSE EnrichOutcomes \ {"not_configured"}

GatewayAnswers ==
    EnrichResults \cup {[topic |-> "Billing", relevance_score |-> 2, confidence |-> 4]}

\* one call of the enrich operation, with what came of it kept in the frame
Enrich(i, gateway, outcome, answer) ==
    /\ FreeSlot(i)
    /\ outcome \in GatewayOutcomes(gateway)
    /\ LET r == CASE gateway = "enrichChunk" -> enrichChunk(outcome, answer)
                  [] gateway = "enrichChunkWithGemini" ->
                        enrichChunkWithGemini(outcome, answer)
                  [] OTHER -> enrichChunkWithOpenAI(outcome, answer)
       IN  Done(i, [op |-> gateway, was |-> outcome, meta |-> r.value,
                    notes |-> r.logged,
                    err |-> IF r.raised THEN "FLOW2_ID not configured" ELSE NULL])
    /\ UNCHANGED <<store, nextId, auth>>

\* a number of a JSON object, NoScore when the key is missing
Score(m, k) == IF k \in DOMAIN m THEN m[k] ELSE NoScore

\* x || y on numbers: 0 and a missing value are falsy
JsOr(x, y) == IF x = NoScore \/ x = 0 THEN y ELSE x

\* aiMetadata.confidence || aiMetadata.relevance_score || 0.5
ConfidenceOf(aiMetadata) ==
    JsOr(JsOr(Score(aiMetadata, "confidence"), Score(aiMetadata, "relevance_score")),
         FallbackScore)

\* an update that stores the result alone: { ...aiMetadata, last_updated: now }
ReplacedMetadata(existing, aiMetadata) ==
    Spread(aiMetadata, [last_updated |-> "enriched"])

\* { ...existingMetadata, ...aiMetadata, last_updated: now }
MergedMetadata(existing, aiMetadata) ==
    Spread(Spread(OrEmpty(existing), aiMetadata), [last_updated |-> "enriched"])

(***************************************************************************)
(* enrichChunkMetadata.                                                    *)
(***************************************************************************)
EnrichStart(i, c) ==
    /\ FreeSlot(i)
    /\ c \in KnownChunks
    /\ chunks' = Update(chunks, c, [review_status |-> "enriching"])
    /\ Begin(i, [op |-> "enrichChunkMetadata", pc |-> "gateway", chunk |-> c])
    /\ UNCHANGED <<documents, kb_vectors, curation_queue, profiles, knowledge_bases,
                   nextId, auth, storage>>

\* enrichChunk resolves (or raises) and the existing metadata is read
EnrichGateway(i, outcome, answer) ==
    /\ calls[i].op = "enrichChunkMetadata" /\ calls[i].pc = "gateway"
    /\ LET r        == enrichChunk(outcome, answer)
           c        == calls[i].chunk
           existing == IF c \in DOMAIN chunks THEN chunks[c].ai_metadata ELSE NullMeta
       IN  IF r.raised
           THEN Goto(i, [pc |-> "catch", err |-> "FLOW2_ID not configured"])
           ELSE Goto(i, [pc |-> "update", err |-> r.logged,
                         aiMetadata |-> r.value,
                         meta |-> MergedMetadata(existing, r.value),
                         n |-> ConfidenceOf(r.value)])
    /\ UNCHANGED <<store, nextId, auth>>

EnrichUpdate(i) ==
    /\ calls[i].op = "enrichChunkMetadata" /\ calls[i].pc = "update"
    /\ chunks' = Update(chunks, calls[i].chunk,
                        [ai_metadata |-> calls[i].meta,
                         confidence_score |-> calls[i].n,
                         review_status |-> "pending"])
    /\ Done(i, [op |-> "enrichChunkMetadata", chunk |-> calls[i].chunk])
    /\ UNCHANGED <<documents, kb_vectors, curation_queue, profiles, knowledge_bases, nextId, auth, storage>>

\* a catch block that logs and leaves the status alone
EnrichCatchNoRevert(i) ==
    /\ calls[i].op = "enrichChunkMetadata" /\ calls[i].pc = "catch"
    /\ Done(i, [op |-> "enrichChunkMetadata", chunk |-> calls[i].chunk])
    /\ UNCHANGED <<store, nextId, auth>>

EnrichCatch(i) ==
    /\ calls[i].op = "enrichChunkMetadata" /\ calls[i].pc = "catch"
    /\ chunks' = Update(chunks, calls[i].chunk, [review_status |-> "pending"])
    /\ Done(i, [op |-> "enrichChunkMetadata", chunk |-> calls[i].chunk])
    /\ UNCHANGED <<documents, kb_vectors, curation_queue, profiles, knowledge_bases, nextId, auth, storage>>

(***************************************************************************)
(* The counter functions of the store (rpc).                               *)
(***************************************************************************)
\* a client-side count: the value read before any approval, plus one
write_first_count(docs, d) ==
    IF d \in DOMAIN docs
    THEN [docs EXCEPT ![d].approved_chunks = 1]
    ELSE docs

increment_approved_chunks(docs, d) ==
    IF d \in DOMAIN docs
    THEN [docs EXCEPT ![d].approved_chunks = @ + 1]
    ELSE docs

increment_rejected_chunks(docs, d) ==
    IF d \in DOMAIN docs
    THEN [docs EXCEPT ![d].rejected_chunks = @ + 1]
    ELSE docs

\* a conversion that keeps the empty string
KeepEmpty(x) == x

\* value || null on strings
OrNull(x) == IF x = "" THEN NULL ELSE x

\* getChunksForReview: the rows it returns (by ascending confidence_score)
getChunksForReview(documentId) ==
    {c \in DOMAIN chunks : chunks[c].document_id = documentId
                           /\ chunks[c].review_status = "pending"}

\* an order that puts the highest score first
Descending(x, y) == x >= y

\* .order('confidence_score', { ascending: true })
Ascending(x, y) == x <= y

\* ORDER BY confidence_score ASC of the store: rows without a score come last,
\* rows with equal scores in any order
InOrder(a, b) ==
    \/ chunks[b].confidence_score = NoScore
    \/ /\ chunks[a].confidence_score # NoScore
       /\ Ascending(chunks[a].confidence_score, chunks[b].confidence_score)

\* the lists getChunksForReview can return: the rows of the select, ordered
ReviewLists(documentId) ==
    LET rows == getChunksForReview(documentId)
        n    == Cardinality(rows)
    IN  {s \in [1 .. n -> rows] :
            /\ \A j, k \in 1 .. n : j # k => s[j] # s[k]
            /\ \A j, k \in 1 .. n : j < k => InOrder(s[j], s[k])}

\* the call of getChunksForReview by the review hook
GetChunksForReview(i, documentId, fetchError) ==
    /\ FreeSlot(i)
    /\ documentId \in KnownDocs
    /\ IF fetchError
       THEN Done(i, [op |-> "getChunksForReview", doc |-> documentId,
                     err |-> "Failed to fetch chunks"])
       ELSE \E s \in ReviewLists(documentId) :
               Done(i, [op |-> "getChunksForReview", doc |-> documentId, list |-> s])
    /\ UNCHANGED <<store, nextId, auth>>

\* getChunk: the row with the id, whatever its status; null when there is none
GetChunk(i, chunkId) ==
    /\ FreeSlot(i)
    /\ chunkId \in KnownChunks
    /\ IF chunkId \in DOMAIN chunks
       THEN Done(i, [op |-> "getChunk", chunk |-> chunkId,
                     was |-> chunks[chunkId].review_status,
                     meta |-> chunks[chunkId].ai_metadata])
       ELSE Done(i, [op |-> "getChunk", chunk |-> chunkId, was |-> NULL])
    /\ UNCHANGED <<store, nextId, auth>>

\* calls in flight that will still count an approval / a rejection for document d
ToApprove(d) ==
    Cardinality({i \in CallIds : calls[i].op = "approveChunk" /\ calls[i].doc = d
                                 /\ calls[i].pc \in {"update", "vector", "count"}})
ToReject(d) ==
    Cardinality({i \in CallIds : calls[i].op = "rejectChunk" /\ calls[i].doc = d
                                 /\ calls[i].pc \in {"update", "count"}})
\* calls in flight that will still insert a kb_vectors row
ToInsert ==
    Cardinality({i \in CallIds : calls[i].op = "approveChunk"
                                 /\ calls[i].pc \in {"update", "vector"}})

(***************************************************************************)
(* approveChunk.                                                           *)
(***************************************************************************)
\* the row approveChunk inserts into kb_vectors
VectorData(frame) ==
    [chunk_id |-> frame.chunk, document_id |-> frame.doc,
     topic |-> Field(OrEmpty(frame.meta), "topic"),
     curator_notes |-> OrNull(frame.notes), approved_by |-> frame.user]

\* select the chunk (the call keeps the row it read: its metadata as meta, its
\* review_status as was); 'Chunk not found' when there is no such row
ApproveFetch(i, c, curatorNotes, userId) ==
    /\ FreeSlot(i)
    /\ c \in KnownChunks
    /\ IF c \notin DOMAIN chunks
       THEN Done(i, [op |-> "approveChunk", chunk |-> c, err |-> "Chunk not found"])
       ELSE /\ documents[chunks[c].document_id].approved_chunks
                 + ToApprove(chunks[c].document_id) < MaxCount
            /\ (nextId.vector - 1) + ToInsert < MaxVectors
            /\ Begin(i, [op |-> "approveChunk", pc |-> "update", chunk |-> c,
                         doc |-> chunks[c].document_id, user |-> userId,
                         notes |-> curatorNotes, meta |-> chunks[c].ai_metadata,
                         was |-> chunks[c].review_status])
    /\ UNCHANGED <<store, nextId, auth>>

\* an approval that goes on when its chunk update failed
ApproveUpdateIgnoresError(i, updateError) ==
    /\ calls[i].op = "approveChunk" /\ calls[i].pc = "update"
    /\ IF updateError
       THEN UNCHANGED chunks
       ELSE chunks' = Update(chunks, calls[i].chunk,
                             [review_status |-> "approved",
                              curator_notes |-> OrNull(calls[i].notes),
                              reviewed_by |-> calls[i].user])
    /\ Goto(i, [pc |-> "vector"])
    /\ UNCHANGED <<documents, kb_vectors, curation_queue, profiles, knowledge_bases, nextId, auth, storage>>

ApproveUpdate(i, updateError) ==
    /\ calls[i].op = "approveChunk" /\ calls[i].pc = "update"
    /\ IF updateError
       THEN /\ Done(i, [op |-> "approveChunk", chunk |-> calls[i].chunk,
                        err |-> "Failed to approve chunk"])
            /\ UNCHANGED chunks
       ELSE /\ chunks' = Update(chunks, calls[i].chunk,
                                [review_status |-> "approved",
                                 curator_notes |-> OrNull(calls[i].notes),
                                 reviewed_by |-> calls[i].user])
            /\ Goto(i, [pc |-> "vector"])
    /\ UNCHANGED <<documents, kb_vectors, curation_queue, profiles, knowledge_bases, nextId, auth, storage>>

\* an approval that a failed insert ends
ApproveVectorThrows(i, vectorError) ==
    /\ calls[i].op = "approveChunk" /\ calls[i].pc = "vector"
    /\ IF vectorError \/ calls[i].chunk \notin DOMAIN chunks
       THEN /\ Done(i, [op |-> "approveChunk", chunk |-> calls[i].chunk,
                        err |-> "Failed to insert kb_vector"])
            /\ UNCHANGED <<kb_vectors, nextId>>
       ELSE /\ kb_vectors' = WithRow(kb_vectors, nextId.vector, VectorData(calls[i]))
            /\ nextId' = [nextId EXCEPT !.vector = @ + 1]
            /\ Goto(i, [pc |-> "count"])
    /\ UNCHANGED <<documents, chunks, curation_queue, profiles, knowledge_bases, auth, storage>>

\* the insert may fail; the failure is logged and the call goes on
ApproveVector(i, vectorError) ==
    /\ calls[i].op = "approveChunk" /\ calls[i].pc = "vector"
    /\ IF vectorError \/ calls[i].chunk \notin DOMAIN chunks
       THEN UNCHANGED <<kb_vectors, nextId>>
       ELSE /\ kb_vectors' = WithRow(kb_vectors, nextId.vector, VectorData(calls[i]))
            /\ nextId' = [nextId EXCEPT !.vector = @ + 1]
    /\ Goto(i, [pc |-> "count"])
    /\ UNCHANGED <<documents, chunks, curation_queue, profiles, knowledge_bases, auth, storage>>

ApproveCount(i) ==
    /\ calls[i].op = "approveChunk" /\ calls[i].pc = "count"
    /\ documents' = increment_approved_chunks(documents, calls[i].doc)
    /\ Goto(i, [pc |-> "embed"])
    /\ UNCHANGED <<chunks, kb_vectors, curation_queue, profiles, knowledge_bases,
                   nextId, auth, storage>>

\* embedChunk succeeds, reports a failure or raises: the approval returns normally
ApproveEmbed(i, embedded) ==
    /\ calls[i].op = "approveChunk" /\ calls[i].pc = "embed"
    /\ Done(i, [op |-> "approveChunk", chunk |-> calls[i].chunk, doc |-> calls[i].doc])
    /\ UNCHANGED <<store, nextId, auth>>

(***************************************************************************)
(* rejectChunk.                                                            *)
(***************************************************************************)
RejectFetch(i, c, userId) ==
    /\ FreeSlot(i)
    /\ c \in KnownChunks
    /\ IF c \notin DOMAIN chunks
       THEN Done(i, [op |-> "rejectChunk", chunk |-> c, err |-> "Chunk not found"])
       ELSE /\ documents[chunks[c].document_id].rejected_chunks
                 + ToReject(chunks[c].document_id) < MaxCount
            /\ Begin(i, [op |-> "rejectChunk", pc |-> "update", chunk |-> c,
                         doc |-> chunks[c].document_id, user |-> userId])
    /\ UNCHANGED <<store, nextId, auth>>

RejectUpdate(i, updateError) ==
    /\ calls[i].op = "rejectChunk" /\ calls[i].pc = "update"
    /\ IF updateError
       THEN /\ Done(i, [op |-> "rejectChunk", chunk |-> calls[i].chunk,
                        err |-> "Failed to reject chunk"])
            /\ UNCHANGED chunks
       ELSE /\ chunks' = Update(chunks, calls[i].chunk,
                                [review_status |-> "rejected",
                                 reviewed_by |-> calls[i].user])
            /\ Goto(i, [pc |-> "count"])
    /\ UNCHANGED <<documents, kb_vectors, curation_queue, profiles, knowledge_bases, nextId, auth, storage>>

\* a count step that counts the rejection as an approval as well
RejectCountBoth(i) ==
    /\ calls[i].op = "rejectChunk" /\ calls[i].pc = "count"
    /\ documents' = increment_approved_chunks(
                        increment_rejected_chunks(documents, calls[i].doc), calls[i].doc)
    /\ Done(i, [op |-> "rejectChunk", chunk |-> calls[i].chunk, doc |-> calls[i].doc])
    /\ UNCHANGED <<chunks, kb_vectors, curation_queue, profiles, knowledge_bases, nextId, auth, storage>>

RejectCount(i) ==
    /\ calls[i].op = "rejectChunk" /\ calls[i].pc = "count"
    /\ documents' = increment_rejected_chunks(documents, calls[i].doc)
    /\ Done(i, [op |-> "rejectChunk", chunk |-> calls[i].chunk, doc |-> calls[i].doc])
    /\ UNCHANGED <<chunks, kb_vectors, curation_queue, profiles, knowledge_bases, nextId, auth, storage>>

(***************************************************************************)
(* saveChunkDraft: one update.                                             *)
(***************************************************************************)
\* the metadata the reviewer sends: the copy it loaded, current or stale
DraftInputs(c) ==
    IF c \in DOMAIN chunks
    THEN {chunks[c].ai_metadata, InsertMetadata(documents[chunks[c].document_id].doc_type)}
    ELSE {NullMeta}

SaveChunkDraft(i, c, curatorNotes, aiMetadata, userId, updateError) ==
    /\ FreeSlot(i)
    /\ c \in KnownChunks
    /\ IF updateError
       THEN /\ Done(i, [op |-> "saveChunkDraft", chunk |-> c, user |-> userId,
                        notes |-> curatorNotes, meta |-> aiMetadata,
                        err |-> "Failed to save draft"])
            /\ UNCHANGED chunks
       ELSE /\ chunks' = Update(chunks, c,
                                [review_status |-> "draft",
                                 curator_notes |-> OrNull(curatorNotes),
                                 ai_metadata |-> aiMetadata,
                                 reviewed_by |-> userId])
            /\ Done(i, [op |-> "saveChunkDraft", chunk |-> c, user |-> userId,
                        notes |-> curatorNotes, meta |-> aiMetadata])
    /\ UNCHANGED <<documents, kb_vectors, curation_queue, profiles, knowledge_bases,
                   nextId, auth, storage>>

(***************************************************************************)
(* submitDocument.                                                         *)
(***************************************************************************)
\* a check that lets a chunk under enrichment through
BlockingWithoutEnriching == {"pending", "draft"}

BlockingStatus == {"pending", "draft", "enriching"}

\* chunks?.filter(c => pending || draft || enriching) of the document
PendingChunks(d) ==
    {c \in DOMAIN chunks : chunks[c].document_id = d
                           /\ chunks[c].review_status \in BlockingStatus}

\* `Cannot submit: ${n} chunks are still pending or in draft.`, n kept apart
CannotSubmit == "Cannot submit: chunks are still pending or in draft."

\* the select and the check that follows it
SubmitCheck(i, d, fetchError) ==
    /\ FreeSlot(i)
    /\ d \in KnownDocs
    /\ IF fetchError
       THEN Done(i, [op |-> "submitDocument", doc |-> d, err |-> "fetch failed"])
       ELSE IF Cardinality(PendingChunks(d)) > 0
       THEN Done(i, [op |-> "submitDocument", doc |-> d, err |-> CannotSubmit,
                     n |-> Cardinality(PendingChunks(d))])
       ELSE Begin(i, [op |-> "submitDocument", pc |-> "update", doc |-> d])
    /\ UNCHANGED <<store, nextId, auth>>

SubmitUpdate(i, updateError) ==
    /\ calls[i].op = "submitDocument" /\ calls[i].pc = "update"
    /\ IF updateError
       THEN /\ Done(i, [op |-> "submitDocument", doc |-> calls[i].doc,
                        err |-> "Failed to submit document"])
            /\ UNCHANGED documents
       ELSE /\ documents' = Update(documents, calls[i].doc, [processing_status |-> "submitted"])
            /\ Done(i, [op |-> "submitDocument", doc |-> calls[i].doc])
    /\ UNCHANGED <<chunks, kb_vectors, curation_queue, profiles, knowledge_bases, nextId, auth, storage>>

(***************************************************************************)
(* The admin gates.                                                        *)
(***************************************************************************)
\* admin.ts ensureAdmin: the error it throws, NULL when it lets the caller pass
ensureAdmin(caller) ==
    IF caller = NoSession THEN "Unauthorized"
    ELSE IF caller \notin DOMAIN profiles THEN "Failed to verify admin privileges"
    ELSE IF profiles[caller].role # "admin" THEN "Admin privileges required"
    ELSE NULL

\* an edge function that only asks for a signed-in caller
serveGateSignedIn(caller) == IF caller = NoSession THEN "Unauthorized" ELSE NULL

\* an edge function that lets curators through as well
serveGateStaff(caller) ==
    IF caller = NoSession THEN "Unauthorized"
    ELSE IF caller \notin DOMAIN profiles \/ profiles[caller].role = "user"
         THEN "Admin privileges required"
    ELSE NULL

\* admin-api/index.ts: the check at the head of the edge function
serveGate(caller) ==
    IF caller = NoSession THEN "Unauthorized"
    ELSE IF caller \notin DOMAIN profiles \/ profiles[caller].role # "admin"
         THEN "Admin privileges required"
    ELSE NULL

\* curator.ts deleteDocument: the inline check
deleteGate(caller) ==
    IF caller = NoSession THEN "Unauthorized"
    ELSE IF caller \notin DOMAIN profiles \/ profiles[caller].role # "admin"
         THEN "Admin privileges required"
    ELSE NULL

\* the two ways the admin screens reach the store: admin.ts with the caller's
\* own client, or the edge function with the service role
Vias == {"client", "edge"}
Gate(via, caller) == IF via = "client" THEN ensureAdmin(caller) ELSE serveGate(caller)

(***************************************************************************)
(* approveDocument (admin.ts, and 'approve-document' of the edge function).*)
(***************************************************************************)
ApproveDocument(i, via, caller, d, updateError) ==
    /\ FreeSlot(i)
    /\ d \in KnownDocs
    /\ IF Gate(via, caller) # NULL
       THEN /\ Done(i, [op |-> "approveDocument", doc |-> d, user |-> caller,
                        err |-> Gate(via, caller)])
            /\ UNCHANGED documents
       ELSE IF updateError
       THEN /\ Done(i, [op |-> "approveDocument", doc |-> d, user |-> caller,
                        err |-> "update failed"])
            /\ UNCHANGED documents
       ELSE /\ documents' = Update(documents, d, [processing_status |-> "completed"])
            /\ Begin(i, [op |-> "approveDocument", pc |-> "queue", doc |-> d,
                         user |-> caller])
    /\ UNCHANGED <<chunks, kb_vectors, curation_queue, profiles, knowledge_bases,
                   nextId, auth, storage>>

\* a match on the url alone
SameUrlQueueItems(doc) ==
    {q \in DOMAIN curation_queue : curation_queue[q].url = doc.source_url}

\* an approval that finds no queue item
NoQueueItems(doc) == {}

\* the curation_queue rows with the document's (source_url, doc_type)
MatchingQueueItems(doc) ==
    {q \in DOMAIN curation_queue :
        curation_queue[q].url = doc.source_url /\ curation_queue[q].kb_id = doc.doc_type}

ApproveDocumentQueue(i) ==
    /\ calls[i].op = "approveDocument" /\ calls[i].pc = "queue"
    /\ LET d == calls[i].doc
       IN  IF d \in DOMAIN documents /\ documents[d].source_url # NULL
           THEN curation_queue' =
                    [q \in DOMAIN curation_queue |->
                        IF q \in MatchingQueueItems(documents[d])
                        THEN [curation_queue[q] EXCEPT !.status = "completed"]
                        ELSE curation_queue[q]]
           ELSE UNCHANGED curation_queue
    /\ Done(i, [op |-> "approveDocument", doc |-> calls[i].doc, user |-> calls[i].user])
    /\ UNCHANGED <<documents, chunks, kb_vectors, profiles, knowledge_bases, nextId, auth, storage>>

\* addToCurationQueue: kb_id references knowledge_bases, (kb_id, url) is unique,
\* a new row is pending
addToCurationQueue(i, caller, kbId, url, insertError) ==
    /\ FreeSlot(i)
    /\ IF \/ insertError
          \/ kbId \notin knowledge_bases
          \/ \E q \in DOMAIN curation_queue :
                curation_queue[q].kb_id = kbId /\ curation_queue[q].url = url
       THEN /\ Done(i, [op |-> "addToCurationQueue", user |-> caller, kb |-> kbId,
                        url |-> url, err |-> "insert failed"])
            /\ UNCHANGED <<curation_queue, nextId>>
       ELSE /\ nextId.queue <= MaxQueue
            /\ curation_queue' = WithRow(curation_queue, nextId.queue,
                                         [kb_id |-> kbId, url |-> url, status |-> "pending"])
            /\ nextId' = [nextId EXCEPT !.queue = @ + 1]
            /\ Done(i, [op |-> "addToCurationQueue", user |-> caller, kb |-> kbId,
                        url |-> url, n |-> nextId.queue])
    /\ UNCHANGED <<documents, chunks, kb_vectors, profiles, knowledge_bases, auth, storage>>

\* deleteFromCurationQueue(id)
deleteFromCurationQueue(i, caller, id, deleteError) ==
    /\ FreeSlot(i)
    /\ id \in 1 .. (nextId.queue - 1)
    /\ IF deleteError
       THEN /\ Done(i, [op |-> "deleteFromCurationQueue", user |-> caller, n |-> id,
                        err |-> "delete failed"])
            /\ UNCHANGED curation_queue
       ELSE /\ curation_queue' = Without(curation_queue, {id})
            /\ Done(i, [op |-> "deleteFromCurationQueue", user |-> caller, n |-> id])
    /\ UNCHANGED <<documents, chunks, kb_vectors, profiles, knowledge_bases, nextId,
                   auth, storage>>

(***************************************************************************)
(* deleteDocument: the row goes, its chunks and their vectors with it.     *)
(***************************************************************************)
\* the storage policy "Admins can delete documents": who may remove an object
CanRemove(caller) ==
    /\ caller \in DOMAIN profiles
    /\ profiles[caller].role = "admin"
    /\ profiles[caller].is_active

\* the object of the document is removed first (a refusal is not looked at)
DeleteDocument(i, caller, d, deleteError) ==
    /\ FreeSlot(i)
    /\ d \in KnownDocs
    /\ IF deleteGate(caller) # NULL
       THEN /\ Done(i, [op |-> "deleteDocument", doc |-> d, user |-> caller,
                        err |-> deleteGate(caller)])
            /\ UNCHANGED <<documents, chunks, kb_vectors, storage>>
       ELSE /\ storage' = IF d \in DOMAIN documents /\ CanRemove(caller) /\ storage > 0
                          THEN storage - 1 ELSE storage
            /\ IF deleteError
               THEN /\ Done(i, [op |-> "deleteDocument", doc |-> d, user |-> caller,
                                err |-> "Failed to delete document"])
                    /\ UNCHANGED <<documents, chunks, kb_vectors>>
               ELSE /\ documents' = Without(documents, {d})
                    /\ chunks' = Without(chunks,
                                         {c \in DOMAIN chunks : chunks[c].document_id = d})
                    /\ kb_vectors' =
                         Without(kb_vectors,
                                 {v \in DOMAIN kb_vectors : kb_vectors[v].document_id = d})
                    /\ Done(i, [op |-> "deleteDocument", doc |-> d, user |-> caller])
    /\ UNCHANGED <<curation_queue, profiles, knowledge_bases, nextId, auth>>

(***************************************************************************)
(* The admin screens: profiles and knowledge bases (admin.ts, and the      *)
(* actions of the edge function).                                          *)
(***************************************************************************)
\* the accounts and knowledge bases the admin screens name
RoleTargets == {"cy", "ian"}
KbInputs    == {"vbc", "ops"}
KbSets      == {{}, {"fhir"}}

\* getAllProfiles / 'list-profiles'
getAllProfiles(i, via, caller) ==
    /\ FreeSlot(i)
    /\ IF Gate(via, caller) # NULL
       THEN Done(i, [op |-> "getAllProfiles", user |-> caller, err |-> Gate(via, caller)])
       ELSE Done(i, [op |-> "getAllProfiles", user |-> caller,
                     n |-> Cardinality(DOMAIN profiles)])
    /\ UNCHANGED <<store, nextId, auth>>

\* updateUserRole / 'update-role'
updateUserRole(i, via, caller, userId, role) ==
    /\ FreeSlot(i)
    /\ IF Gate(via, caller) # NULL
       THEN /\ Done(i, [op |-> "updateUserRole", user |-> caller, err |-> Gate(via, caller)])
            /\ UNCHANGED profiles
       ELSE /\ profiles' = Update(profiles, userId, [role |-> role])
            /\ Done(i, [op |-> "updateUserRole", user |-> caller])
    /\ UNCHANGED <<documents, chunks, kb_vectors, curation_queue, knowledge_bases,
                   nextId, auth, storage>>

\* assignKBsToCurator / 'assign-kbs'
assignKBsToCurator(i, via, caller, userId, kbIds) ==
    /\ FreeSlot(i)
    /\ IF Gate(via, caller) # NULL
       THEN /\ Done(i, [op |-> "assignKBsToCurator", user |-> caller,
                        err |-> Gate(via, caller)])
            /\ UNCHANGED profiles
       ELSE /\ profiles' = Update(profiles, userId, [assigned_kbs |-> kbIds])
            /\ Done(i, [op |-> "assignKBsToCurator", user |-> caller])
    /\ UNCHANGED <<documents, chunks, kb_vectors, curation_queue, knowledge_bases,
                   nextId, auth, storage>>

\* createKnowledgeBase / 'create-kb': the id is the primary key
createKnowledgeBase(i, via, caller, id) ==
    /\ FreeSlot(i)
    /\ IF Gate(via, caller) # NULL
       THEN /\ Done(i, [op |-> "createKnowledgeBase", user |-> caller,
                        err |-> Gate(via, caller)])
            /\ UNCHANGED knowledge_bases
       ELSE IF id \in knowledge_bases
       THEN /\ Done(i, [op |-> "createKnowledgeBase", user |-> caller,
                        err |-> "duplicate key"])
            /\ UNCHANGED knowledge_bases
       ELSE /\ knowledge_bases' = knowledge_bases \cup {id}
            /\ Done(i, [op |-> "createKnowledgeBase", user |-> caller])
    /\ UNCHANGED <<documents, chunks, kb_vectors, curation_queue, profiles, nextId, auth, storage>>

\* deleteKnowledgeBase / 'delete-kb': documents keep a knowledge base alive
\* (fk_documents_kb), its curation_queue rows go with it (ON DELETE CASCADE)
deleteKnowledgeBase(i, via, caller, id) ==
    /\ FreeSlot(i)
    /\ IF Gate(via, caller) # NULL
       THEN /\ Done(i, [op |-> "deleteKnowledgeBase", user |-> caller,
                        err |-> Gate(via, caller)])
            /\ UNCHANGED <<knowledge_bases, curation_queue>>
       ELSE IF \E d \in DOMAIN documents : documents[d].doc_type = id
       THEN /\ Done(i, [op |-> "deleteKnowledgeBase", user |-> caller,
                        err |-> "foreign key violation"])
            /\ UNCHANGED <<knowledge_bases, curation_queue>>
       ELSE /\ knowledge_bases' = knowledge_bases \ {id}
            /\ curation_queue' =
                 Without(curation_queue,
                         {q \in DOMAIN curation_queue : curation_queue[q].kb_id = id})
            /\ Done(i, [op |-> "deleteKnowledgeBase", user |-> caller])
    /\ UNCHANGED <<documents, chunks, kb_vectors, profiles, nextId, auth, storage>>

(***************************************************************************)
(* The useAuth hook of one browser.                                        *)
(***************************************************************************)
\* fetchProfile: the profiles row of the user, null when the query fails
fetchProfile(userId, failed) ==
    IF failed \/ userId \notin DOMAIN profiles
    THEN NoProfile
    ELSE [id |-> userId, role |-> profiles[userId].role,
          is_active |-> profiles[userId].is_active]

AuthEvents == {"SIGNED_IN", "TOKEN_REFRESHED"}

\* the onAuthStateChange callback
onAuthStateChange(event, newUser, failed) ==
    /\ auth' =
         Spread(auth,
           Spread([loading |-> FALSE],
             IF newUser = NoSession
             THEN [user |-> NULL, profile |-> NoProfile]
             ELSE IF event = "SIGNED_IN" \/ auth.profile = NoProfile
                     \/ auth.profile.id # newUser
             THEN [user |-> newUser,
                   profile |-> IF fetchProfile(newUser, failed) # NoProfile
                               THEN fetchProfile(newUser, failed) ELSE auth.profile]
             ELSE [user |-> newUser, profile |-> auth.profile]))
    /\ UNCHANGED <<store, nextId, calls>>

refreshProfile(failed) ==
    /\ auth.user # NULL
    /\ auth' = [auth EXCEPT !.profile = fetchProfile(auth.user, failed)]
    /\ UNCHANGED <<store, nextId, calls>>

signOut ==
    /\ auth' = Spread(auth, [user |-> NULL, profile |-> NoProfile])
    /\ UNCHANGED <<store, nextId, calls>>

\* a role check that ignores is_active
isRoleAnyStatus(role) ==
    LET profile == auth.profile
    IN  IF profile = NoProfile THEN FALSE
        ELSE IF profile.role = "admin" THEN TRUE
        ELSE IF profile.role = "curator" /\ (role = "curator" \/ role = "user") THEN TRUE
        ELSE IF profile.role = "user" /\ role = "user" THEN TRUE
        ELSE FALSE

\* isRole(role)
isRole(role) ==
    LET profile == auth.profile
    IN  IF profile = NoProfile \/ ~profile.is_active THEN FALSE
        ELSE IF profile.role = "admin" THEN TRUE
        ELSE IF profile.role = "curator" /\ (role = "curator" \/ role = "user") THEN TRUE
        ELSE IF profile.role = "user" /\ role = "user" THEN TRUE
        ELSE FALSE

\* isAdmin of the context value
isAdmin == auth.profile # NoProfile /\ auth.profile.role = "admin"
           /\ auth.profile.is_active = TRUE

(***************************************************************************)
(* The review pipeline: one session uploads, processes, reviews, submits   *)
(* and approves, call after call.  The provider may fail; the store        *)
(* answers every query.                                                    *)
(***************************************************************************)
UploadCallers == {"cy", NoSession}
UploadKbs     == {"fhir"}
QueuedUrls    == {"https://x"}
ReviewNotes   == {"note"}
Healthy       == {FALSE}

\* the copy of the metadata the reviewer holds when nothing else changed it
LoadedMetadata(c) == {IF c \in DOMAIN chunks THEN chunks[c].ai_metadata ELSE NullMeta}

Next ==
    \/ \E i \in OneSession, caller \in UploadCallers, docType \in UploadKbs,
          sourceUrl \in QueuedUrls : UploadDocument(i, caller, docType, sourceUrl)
    \/ \E i \in OneSession, d \in DocIds : ProcessStart(i, d)
    \/ \E i \in OneSession, raised \in BOOLEAN, batch \in Batches :
          ProcessGateway(i, raised, batch)
    \/ \E i \in OneSession, chunksError \in BOOLEAN : ProcessInsert(i, chunksError)
    \/ \E i \in OneSession : ProcessReview(i)
    \/ \E i \in OneSession : ProcessCatch(i)
    \/ \E i \in OneSession, c \in ChunkIds, notes \in ReviewNotes, u \in Reviewers :
          ApproveFetch(i, c, notes, u)
    \/ \E i \in OneSession, updateError \in Healthy : ApproveUpdate(i, updateError)
    \/ \E i \in OneSession, vectorError \in Healthy : ApproveVector(i, vectorError)
    \/ \E i \in OneSession : ApproveCount(i)
    \/ \E i \in OneSession, embedded \in BOOLEAN : ApproveEmbed(i, embedded)
    \/ \E i \in OneSession, c \in ChunkIds, u \in Reviewers : RejectFetch(i, c, u)
    \/ \E i \in OneSession, updateError \in Healthy : RejectUpdate(i, updateError)
    \/ \E i \in OneSession : RejectCount(i)
    \/ \E i \in OneSession, c \in ChunkIds, notes \in ReviewNotes, u \in Reviewers,
          updateError \in Healthy :
          \E aiMetadata \in LoadedMetadata(c) :
             SaveChunkDraft(i, c, notes, aiMetadata, u, updateError)
    \/ \E i \in OneSession, d \in DocIds, fetchError \in Healthy :
          SubmitCheck(i, d, fetchError)
    \/ \E i \in OneSession, updateError \in Healthy : SubmitUpdate(i, updateError)
    \/ \E i \in OneSession, via \in Vias, caller \in Callers, d \in DocIds,
          updateError \in Healthy : ApproveDocument(i, via, caller, d, updateError)
    \/ \E i \in OneSession : ApproveDocumentQueue(i)
    \/ \E i \in OneSession : Return(i)

Spec == Init /\ [][Next]_vars

(***************************************************************************)
(* Enrichment: a processed document whose chunks are enriched, edited and  *)
(* approved, call after call; the enrichment flow may fail in every way.   *)
(***************************************************************************)
Working == {FALSE}

NextEnrich ==
    \/ \E i \in OneSession, docType \in UploadKbs, sourceUrl \in QueuedUrls :
          UploadDocument(i, "cy", docType, sourceUrl)
    \/ \E i \in OneSession, d \in DocIds : ProcessStart(i, d)
    \/ \E i \in OneSession, raised \in Working, batch \in Batches :
          ProcessGateway(i, raised, batch)
    \/ \E i \in OneSession, chunksError \in Healthy : ProcessInsert(i, chunksError)
    \/ \E i \in OneSession : ProcessReview(i)
    \/ \E i \in OneSession : ProcessCatch(i)
    \/ \E i \in OneSession, c \in ChunkIds : EnrichStart(i, c)
    \/ \E i \in OneSession, outcome \in EnrichOutcomes, answer \in EnrichResults :
          EnrichGateway(i, outcome, answer)
    \/ \E i \in OneSession : EnrichUpdate(i)
    \/ \E i \in OneSession : EnrichCatch(i)
    \/ \E i \in OneSession, c \in ChunkIds, notes \in NotesInputs, u \in Reviewers,
          updateError \in BOOLEAN :
          \E aiMetadata \in DraftInputs(c) :
             SaveChunkDraft(i, c, notes, aiMetadata, u, updateError)
    \/ \E i \in OneSession : Return(i)

SpecEnrich == Init /\ [][NextEnrich]_vars

(***************************************************************************)
(* Submission beside enrichment: the session rejects, drafts and submits   *)
(* in one slot while enrichment calls run in the other.                    *)
(***************************************************************************)
\* the flow answers, or is not configured
FlowOutcomes == {"answer", "not_configured"}

NextSubmit ==
    \/ \E i \in OneSession, docType \in UploadKbs, sourceUrl \in QueuedUrls :
          UploadDocument(i, "cy", docType, sourceUrl)
    \/ \E i \in OneSession, d \in DocIds : ProcessStart(i, d)
    \/ \E i \in OneSession, raised \in Working, batch \in Batches :
          ProcessGateway(i, raised, batch)
    \/ \E i \in OneSession, chunksError \in Healthy : ProcessInsert(i, chunksError)
    \/ \E i \in OneSession : ProcessReview(i)
    \/ \E i \in OneSession : ProcessCatch(i)
    \/ \E i \in Background, c \in ChunkIds : EnrichStart(i, c)
    \/ \E i \in Background, outcome \in FlowOutcomes, answer \in EnrichResults :
          EnrichGateway(i, outcome, answer)
    \/ \E i \in Background : EnrichUpdate(i)
    \/ \E i \in Background : EnrichCatch(i)
    \/ \E i \in OneSession, c \in ChunkIds, u \in Reviewers : RejectFetch(i, c, u)
    \/ \E i \in OneSession, updateError \in Healthy : RejectUpdate(i, updateError)
    \/ \E i \in OneSession : RejectCount(i)
    \/ \E i \in OneSession, c \in ChunkIds, notes \in ReviewNotes, u \in Reviewers,
          updateError \in Healthy :
          \E aiMetadata \in LoadedMetadata(c) :
             SaveChunkDraft(i, c, notes, aiMetadata, u, updateError)
    \/ \E i \in OneSession, d \in DocIds, fetchError \in BOOLEAN :
          SubmitCheck(i, d, fetchError)
    \/ \E i \in OneSession, updateError \in BOOLEAN : SubmitUpdate(i, updateError)
    \/ \E i \in CallIds : Return(i)

SpecSubmit == Init /\ [][NextSubmit]_vars

(***************************************************************************)
(* The admin screens, call after call, by every kind of caller.            *)
(***************************************************************************)
NextAdmin ==
    \/ \E i \in OneSession, caller \in Callers, docType \in KbInputs :
          UploadDocument(i, caller, docType, "https://x")
    \/ \E i \in OneSession, via \in Vias, caller \in Callers, d \in DocIds,
          updateError \in BOOLEAN : ApproveDocument(i, via, caller, d, updateError)
    \/ \E i \in OneSession : ApproveDocumentQueue(i)
    \/ \E i \in OneSession, caller \in Callers, d \in DocIds, deleteError \in BOOLEAN :
          DeleteDocument(i, caller, d, deleteError)
    \/ \E i \in OneSession, via \in Vias, caller \in Callers :
          getAllProfiles(i, via, caller)
    \/ \E i \in OneSession, via \in Vias, caller \in Callers, userId \in RoleTargets,
          role \in UserRole : updateUserRole(i, via, caller, userId, role)
    \/ \E i \in OneSession, via \in Vias, caller \in Callers, userId \in RoleTargets,
          kbIds \in KbSets : assignKBsToCurator(i, via, caller, userId, kbIds)
    \/ \E i \in OneSession, via \in Vias, caller \in Callers, id \in KbInputs :
          createKnowledgeBase(i, via, caller, id)
    \/ \E i \in OneSession, via \in Vias, caller \in Callers, id \in KbInputs :
          deleteKnowledgeBase(i, via, caller, id)
    \/ \E i \in OneSession : Return(i)

SpecAdmin == Init /\ [][NextAdmin]_vars

(***************************************************************************)
(* The sign-in state of one browser while an admin changes roles.          *)
(***************************************************************************)
NextAuth ==
    \/ \E event \in AuthEvents, newUser \in Callers, failed \in BOOLEAN :
          onAuthStateChange(event, newUser, failed)
    \/ \E failed \in BOOLEAN : refreshProfile(failed)
    \/ signOut
    \/ \E i \in OneSession, via \in Vias, userId \in RoleTargets, role \in UserRole :
          updateUserRole(i, via, "ada", userId, role)
    \/ \E i \in OneSession : Return(i)

SpecAuth == Init /\ [][NextAuth]_vars

(***************************************************************************)
(* Uploads by every kind of caller, with and without a source url, into    *)
(* knowledge bases that exist and one that does not; an admin deletes.     *)
(***************************************************************************)
UploadKbInputs == KbIds \cup {"ops"}

NextUpload ==
    \/ \E i \in OneSession, caller \in Callers, docType \in UploadKbInputs,
          sourceUrl \in SourceUrls : UploadDocument(i, caller, docType, sourceUrl)
    \/ \E i \in OneSession, caller \in Callers, d \in DocIds, deleteError \in BOOLEAN :
          DeleteDocument(i, caller, d, deleteError)
    \/ \E i \in OneSession : Return(i)

SpecUpload == Init /\ [][NextUpload]_vars

(***************************************************************************)
(* The review scenario: a curator uploads and processes a document once,   *)
(* approves its pending chunks and submits; the admin approves what was    *)
(* submitted.                                                              *)
(***************************************************************************)
Admins == {"ada"}

NextScenario ==
    \/ \E i \in OneSession, docType \in UploadKbs, sourceUrl \in QueuedUrls :
          UploadDocument(i, "cy", docType, sourceUrl)
    \/ \E i \in OneSession, d \in DocIds :
          /\ d \in DOMAIN documents /\ documents[d].processing_status = "pending"
          /\ ProcessStart(i, d)
    \/ \E i \in OneSession, raised \in Working, batch \in Batches :
          ProcessGateway(i, raised, batch)
    \/ \E i \in OneSession, chunksError \in Healthy : ProcessInsert(i, chunksError)
    \/ \E i \in OneSession : ProcessReview(i)
    \/ \E i \in OneSession : ProcessCatch(i)
    \/ \E i \in OneSession, c \in ChunkIds, notes \in NotesInputs, u \in Reviewers :
          /\ c \in DOMAIN chunks /\ c \in getChunksForReview(chunks[c].document_id)
          /\ ApproveFetch(i, c, notes, u)
    \/ \E i \in OneSession, updateError \in Healthy : ApproveUpdate(i, updateError)
    \/ \E i \in OneSession, vectorError \in BOOLEAN : ApproveVector(i, vectorError)
    \/ \E i \in OneSession : ApproveCount(i)
    \/ \E i \in OneSession, embedded \in BOOLEAN : ApproveEmbed(i, embedded)
    \/ \E i \in OneSession, d \in DocIds, fetchError \in Healthy :
          SubmitCheck(i, d, fetchError)
    \/ \E i \in OneSession, updateError \in Healthy : SubmitUpdate(i, updateError)
    \/ \E i \in OneSession, via \in Vias, caller \in Admins, d \in DocIds,
          updateError \in Healthy :
          /\ d \in DOMAIN documents /\ documents[d].processing_status = "submitted"
          /\ ApproveDocument(i, via, caller, d, updateError)
    \/ \E i \in OneSession : ApproveDocumentQueue(i)
    \/ \E i \in OneSession : Return(i)

SpecScenario == Init /\ [][NextScenario]_vars

(***************************************************************************)
(* Enrichment from two places at once: the upload flow's batch and the     *)
(* reviewer's button, or the reviewers of two sessions.                    *)
(***************************************************************************)
NextLock ==
    \/ \E i \in OneSession, docType \in UploadKbs, sourceUrl \in QueuedUrls :
          UploadDocument(i, "cy", docType, sourceUrl)
    \/ \E i \in OneSession, d \in DocIds :
          /\ d \in DOMAIN documents /\ documents[d].processing_status = "pending"
          /\ ProcessStart(i, d)
    \/ \E i \in OneSession, raised \in Working, batch \in Batches :
          ProcessGateway(i, raised, batch)
    \/ \E i \in OneSession, chunksError \in Healthy : ProcessInsert(i, chunksError)
    \/ \E i \in OneSession : ProcessReview(i)
    \/ \E i \in OneSession : ProcessCatch(i)
    \/ \E i \in CallIds, c \in ChunkIds : EnrichStart(i, c)
    \/ \E i \in CallIds, outcome \in EnrichOutcomes, answer \in EnrichResults :
          EnrichGateway(i, outcome, answer)
    \/ \E i \in CallIds : EnrichUpdate(i)
    \/ \E i \in CallIds : EnrichCatch(i)
    \/ \E i \in CallIds : Return(i)

SpecLock == Init /\ [][NextLock]_vars

\* a call of enrichChunkMetadata that was started runs on: the flow answers
\* or fails, and the event loop runs what follows each await
EnrichmentRuns ==
    \A i \in CallIds :
        /\ WF_vars(\E outcome \in EnrichOutcomes, answer \in EnrichResults :
                      EnrichGateway(i, outcome, answer))
        /\ WF_vars(EnrichUpdate(i))
        /\ WF_vars(EnrichCatch(i))

SpecLockFair == SpecLock /\ EnrichmentRuns

(***************************************************************************)
(* Two curators at work on one document: each decides the chunk in front   *)
(* of them, the steps of their calls interleave.                           *)
(***************************************************************************)
\* who works in which session, and on which chunk
Desk == [c \in CallIds |-> IF c = 1 THEN "cy" ELSE "ada"]

NextCount ==
    \/ \E i \in OneSession, docType \in UploadKbs, sourceUrl \in QueuedUrls :
          UploadDocument(i, "cy", docType, sourceUrl)
    \/ \E i \in OneSession, d \in DocIds :
          /\ d \in DOMAIN documents /\ documents[d].processing_status = "pending"
          /\ ProcessStart(i, d)
    \/ \E i \in OneSession, raised \in Working, batch \in Batches :
          ProcessGateway(i, raised, batch)
    \/ \E i \in OneSession, chunksError \in Healthy : ProcessInsert(i, chunksError)
    \/ \E i \in OneSession : ProcessReview(i)
    \/ \E i \in OneSession : ProcessCatch(i)
    \/ \E i \in CallIds, notes \in ReviewNotes :
          /\ \E d \in DocIds : i \in getChunksForReview(d)
          /\ ApproveFetch(i, i, notes, Desk[i])
    \/ \E i \in CallIds, updateError \in BOOLEAN : ApproveUpdate(i, updateError)
    \/ \E i \in CallIds, vectorError \in BOOLEAN : ApproveVector(i, vectorError)
    \/ \E i \in CallIds : ApproveCount(i)
    \/ \E i \in CallIds, embedded \in BOOLEAN : ApproveEmbed(i, embedded)
    \/ \E i \in CallIds :
          /\ \E d \in DocIds : i \in getChunksForReview(d)
          /\ RejectFetch(i, i, Desk[i])
    \/ \E i \in CallIds, updateError \in BOOLEAN : RejectUpdate(i, updateError)
    \/ \E i \in CallIds : RejectCount(i)
    \/ \E i \in CallIds : Return(i)

SpecCount == Init /\ [][NextCount]_vars

(***************************************************************************)
(* Processing with either document processor: the provider answers, fails  *)
(* at any of its calls, or is not configured.                              *)
(***************************************************************************)
\* the batches that still fit the rows of the model
Fits(batch) == nextId.chunk + Len(batch) - 1 <= MaxRows

NextProcess ==
    \/ \E i \in OneSession, docType \in UploadKbs, sourceUrl \in QueuedUrls :
          UploadDocument(i, "cy", docType, sourceUrl)
    \/ \E i \in OneSession, d \in DocIds :
          /\ d \in DOMAIN documents
          /\ ProcessStart(i, d)
    \/ \E i \in OneSession, processor \in Processors, outcome \in ProcessOutcomes,
          batch \in Batches : Fits(batch) /\ ProcessWith(i, processor, outcome, batch)
    \/ \E i \in OneSession, chunksError \in BOOLEAN : ProcessInsert(i, chunksError)
    \/ \E i \in OneSession : ProcessReview(i)
    \/ \E i \in OneSession : ProcessCatch(i)
    \/ \E i \in OneSession : Return(i)

SpecProcess == Init /\ [][NextProcess]_vars

\* a call of processAndStoreDocument that was started runs on: every awaited
\* call settles and the event loop runs what follows it
ProcessingRuns ==
    \A i \in OneSession :
        /\ WF_vars(\E processor \in Processors, outcome \in ProcessOutcomes,
                      batch \in Batches :
                      Fits(batch) /\ ProcessWith(i, processor, outcome, batch))
        /\ WF_vars(\E chunksError \in BOOLEAN : ProcessInsert(i, chunksError))
        /\ WF_vars(ProcessReview(i))
        /\ WF_vars(ProcessCatch(i))

SpecProcessFair == SpecProcess /\ ProcessingRuns

(***************************************************************************)
(* The gateway's enrich operation on its own: every implementation with    *)
(* every way its provider call can end.                                    *)
(***************************************************************************)
NextGateway ==
    \/ \E i \in CallIds, gateway \in Gateways, outcome \in EnrichOutcomes,
          answer \in GatewayAnswers : Enrich(i, gateway, outcome, answer)
    \/ \E i \in CallIds : Return(i)

SpecGateway == Init /\ [][NextGateway]_vars

(***************************************************************************)
(* The curation queue: items are added and removed, documents with and     *)
(* without a source are uploaded, approved and deleted.                    *)
(***************************************************************************)
QueueUrls == {"https://x", "https://y"}

NextQueue ==
    \/ \E i \in OneSession, docType \in KbIds, sourceUrl \in SourceUrls :
          UploadDocument(i, "cy", docType, sourceUrl)
    \/ \E i \in OneSession, via \in Vias, caller \in Reviewers \cup Admins, d \in DocIds,
          updateError \in BOOLEAN : ApproveDocument(i, via, caller, d, updateError)
    \/ \E i \in OneSession : ApproveDocumentQueue(i)
    \/ \E i \in OneSession, d \in DocIds : DeleteDocument(i, "ada", d, FALSE)
    \/ \E i \in OneSession, kbId \in UploadKbInputs, url \in QueueUrls,
          insertError \in BOOLEAN : addToCurationQueue(i, "cy", kbId, url, insertError)
    \/ \E i \in OneSession, id \in 1 .. MaxQueue, deleteError \in BOOLEAN :
          deleteFromCurationQueue(i, "cy", id, deleteError)
    \/ \E i \in OneSession, via \in Vias, id \in KbIds :
          deleteKnowledgeBase(i, via, "ada", id)
    \/ \E i \in OneSession : Return(i)

SpecQueue == Init /\ [][NextQueue]_vars

(***************************************************************************)
(* The admin-api edge function: every request type, from every caller.     *)
(***************************************************************************)
Edge == {"edge"}

NextEdge ==
    \/ \E i \in OneSession, caller \in UploadCallers, docType \in UploadKbs :
          UploadDocument(i, caller, docType, "https://x")
    \/ \E i \in OneSession, via \in Edge, caller \in Callers, d \in DocIds,
          updateError \in BOOLEAN : ApproveDocument(i, via, caller, d, updateError)
    \/ \E i \in OneSession : ApproveDocumentQueue(i)
    \/ \E i \in OneSession, via \in Edge, caller \in Callers :
          getAllProfiles(i, via, caller)
    \/ \E i \in OneSession, via \in Edge, caller \in Callers, userId \in Users,
          role \in UserRole : updateUserRole(i, via, caller, userId, role)
    \/ \E i \in OneSession, via \in Edge, caller \in Callers, userId \in RoleTargets,
          kbIds \in KbSets : assignKBsToCurator(i, via, caller, userId, kbIds)
    \/ \E i \in OneSession, via \in Edge, caller \in Callers, id \in KbInputs :
          createKnowledgeBase(i, via, caller, id)
    \/ \E i \in OneSession, via \in Edge, caller \in Callers, id \in KbInputs :
          deleteKnowledgeBase(i, via, caller, id)
    \/ \E i \in OneSession : Return(i)

SpecEdge == Init /\ [][NextEdge]_vars

(***************************************************************************)
(* What a signed-in user is shown: the document list and the queue.        *)
(***************************************************************************)
\* getDocuments(options): the kbIds filter is applied when the option is
\* there and not empty
getDocuments(options) ==
    IF "kbIds" \in DOMAIN options /\ options.kbIds # {}
    THEN {d \in DOMAIN documents : documents[d].doc_type \in options.kbIds}
    ELSE DOMAIN documents

\* the options useDocuments builds from the profile
DocumentOptions(profile) ==
    IF profile.role = "curator" THEN [kbIds |-> profile.assigned_kbs] ELSE EmptyMeta

\* useDocuments.loadDocuments for the profile of the signed-in user
loadDocuments(i, caller, fetchError) ==
    /\ FreeSlot(i)
    /\ caller \in DOMAIN profiles
    /\ IF fetchError
       THEN Done(i, [op |-> "loadDocuments", user |-> caller,
                     err |-> "Failed to fetch documents"])
       ELSE Done(i, [op |-> "loadDocuments", user |-> caller,
                     rows |-> getDocuments(DocumentOptions(profiles[caller]))])
    /\ UNCHANGED <<store, nextId, auth>>

\* getCurationQueue(): every row of curation_queue
getCurationQueue == DOMAIN curation_queue

\* CuratorDashboard.loadData: the queue a curator is shown is filtered by
\* assigned_kbs, everybody else is shown all of it
loadData(i, caller, fetchError) ==
    /\ FreeSlot(i)
    /\ caller \in DOMAIN profiles
    /\ IF fetchError
       THEN Done(i, [op |-> "loadData", user |-> caller,
                     err |-> "Failed to load dashboard"])
       ELSE Done(i, [op |-> "loadData", user |-> caller,
                     rows |-> IF profiles[caller].role = "curator"
                              THEN {q \in getCurationQueue :
                                      curation_queue[q].kb_id
                                         \in profiles[caller].assigned_kbs}
                              ELSE getCurationQueue])
    /\ UNCHANGED <<store, nextId, auth>>

Assignments == SUBSET KbIds

NextScope ==
    \/ \E i \in OneSession, docType \in KbIds :
          UploadDocument(i, "ada", docType, "https://x")
    \/ \E i \in OneSession, d \in DocIds : DeleteDocument(i, "ada", d, FALSE)
    \/ \E i \in OneSession, via \in Vias, userId \in RoleTargets, kbIds \in Assignments :
          assignKBsToCurator(i, via, "ada", userId, kbIds)
    \/ \E i \in OneSession, via \in Vias, userId \in RoleTargets, role \in UserRole :
          updateUserRole(i, via, "ada", userId, role)
    \/ \E i \in Background, caller \in Users, fetchError \in BOOLEAN :
          loadDocuments(i, caller, fetchError)
    \/ \E i \in Background, caller \in Users, fetchError \in BOOLEAN :
          loadData(i, caller, fetchError)
    \/ \E i \in CallIds : Return(i)

SpecScope == Init /\ [][NextScope]_vars

(***************************************************************************)
(* The review list: one session enriches, drafts, approves and rejects the *)
(* chunks its list shows; a second caller loads the list and single chunks *)
(* in between.                                                             *)
(***************************************************************************)
NextReview ==
    \/ \E i \in OneSession, docType \in UploadKbs, sourceUrl \in QueuedUrls :
          UploadDocument(i, "cy", docType, sourceUrl)
    \/ \E i \in OneSession, d \in DocIds :
          /\ d \in DOMAIN documents /\ documents[d].processing_status = "pending"
          /\ ProcessStart(i, d)
    \/ \E i \in OneSession, raised \in Working, batch \in Batches :
          ProcessGateway(i, raised, batch)
    \/ \E i \in OneSession, chunksError \in Healthy : ProcessInsert(i, chunksError)
    \/ \E i \in OneSession : ProcessReview(i)
    \/ \E i \in OneSession : ProcessCatch(i)
    \/ \E i \in OneSession, d \in DocIds, c \in ChunkIds :
          /\ c \in getChunksForReview(d)
          /\ EnrichStart(i, c)
    \/ \E i \in OneSession, outcome \in EnrichOutcomes, answer \in EnrichResults :
          EnrichGateway(i, outcome, answer)
    \/ \E i \in OneSession : EnrichUpdate(i)
    \/ \E i \in OneSession : EnrichCatch(i)
    \/ \E i \in OneSession, c \in ChunkIds, notes \in ReviewNotes, u \in Reviewers :
          /\ \E d \in DocIds : c \in getChunksForReview(d)
          /\ ApproveFetch(i, c, notes, u)
    \/ \E i \in OneSession, updateError \in Healthy : ApproveUpdate(i, updateError)
    \/ \E i \in OneSession, vectorError \in Healthy : ApproveVector(i, vectorError)
    \/ \E i \in OneSession : ApproveCount(i)
    \/ \E i \in OneSession, embedded \in Working : ApproveEmbed(i, embedded)
    \/ \E i \in OneSession, c \in ChunkIds, u \in Reviewers :
          /\ \E d \in DocIds : c \in getChunksForReview(d)
          /\ RejectFetch(i, c, u)
    \/ \E i \in OneSession, updateError \in Healthy : RejectUpdate(i, updateError)
    \/ \E i \in OneSession : RejectCount(i)
    \/ \E i \in OneSession, c \in ChunkIds, notes \in ReviewNotes, u \in Reviewers,
          updateError \in Healthy :
          /\ \E d \in DocIds : c \in getChunksForReview(d)
          /\ \E aiMetadata \in LoadedMetadata(c) :
                SaveChunkDraft(i, c, notes, aiMetadata, u, updateError)
    \/ \E i \in Background, d \in DocIds, fetchError \in BOOLEAN :
          GetChunksForReview(i, d, fetchError)
    \/ \E i \in Background, c \in ChunkIds : GetChunk(i, c)
    \/ \E i \in CallIds : Return(i)

SpecReview == Init /\ [][NextReview]_vars

(***************************************************************************)
(* Properties.                                                             *)
(***************************************************************************)
\* the documents / chunks that exist before and after a step
SameDocs   == (DOMAIN documents) \cap (DOMAIN documents')
SameChunks == (DOMAIN chunks) \cap (DOMAIN chunks')

\* slot i starts a call of op in this step
Starts(i, op) == IsIdle(i) /\ calls'[i].op = op

\* slot i holds the result of a call of op
Returned(i, op) == calls[i].op = op /\ calls[i].pc = "done" /\ calls[i].err = NULL
Threw(i, op, msg) == calls[i].op = op /\ calls[i].pc = "done" /\ calls[i].err = msg

\* C1: for every document, approved_chunks + rejected_chunks never exceeds
\* total_chunks, whatever approveChunk, rejectChunk and saveChunkDraft calls ran.
C1_CountersWithinTotal ==
    \A d \in DOMAIN documents :
        documents[d].approved_chunks + documents[d].rejected_chunks
            <= documents[d].total_chunks

\* the chunks of a document that stand in the way of its submission
C2_Blocking(d) ==
    {c \in DOMAIN chunks : chunks[c].document_id = d
                           /\ chunks[c].review_status \in {"pending", "draft", "enriching"}}

\* C2: submitDocument goes on to set submitted exactly when the document has no
\* pending, draft or enriching chunk; with k >= 1 such chunks it throws the
\* "Cannot submit" error carrying k and the documents are left as they were;
\* and processing_status becomes submitted only by a submitDocument call that
\* passed that check.
C2_SubmitIffNoBlocking ==
    [][ /\ \A i \in CallIds :
              (Starts(i, "submitDocument") /\ calls'[i].err # "fetch failed") =>
                 LET d == calls'[i].doc
                     k == Cardinality(C2_Blocking(d))
                 IN  IF k > 0
                     THEN /\ calls'[i].pc = "done" /\ calls'[i].err = CannotSubmit
                          /\ calls'[i].n = k
                          /\ documents' = documents
                     ELSE calls'[i].pc = "update" /\ calls'[i].err = NULL
        /\ \A i \in CallIds :
              ( /\ calls[i].op = "submitDocument" /\ calls[i].pc = "update"
                /\ calls'[i].pc = "done" /\ calls'[i].err = NULL
                /\ calls[i].doc \in DOMAIN documents )
              => documents'[calls[i].doc].processing_status = "submitted"
        /\ \A d \in SameDocs :
              ( /\ documents'[d].processing_status = "submitted"
                /\ documents[d].processing_status # "submitted" )
              => \E i \in CallIds :
                    /\ calls[i].op = "submitDocument" /\ calls[i].pc = "update"
                    /\ calls[i].doc = d /\ calls'[i].pc = "done"
      ]_vars

\* a submission was refused with a count of two while a chunk was being enriched
C2_Witness ==
    \E i \in CallIds :
        /\ Threw(i, "submitDocument", CannotSubmit) /\ calls[i].n = 2
        /\ \E c \in DOMAIN chunks : chunks[c].review_status = "enriching"
        /\ documents[calls[i].doc].processing_status = "review"

\* C3: a chunk inserted as filtered is never among the rows of
\* getChunksForReview and never has review_status approved or rejected.
C3_FilteredStaysOut ==
    \A c \in DOMAIN chunks :
        chunks[c].is_filtered =>
            /\ chunks[c].review_status \notin {"approved", "rejected"}
            /\ c \notin getChunksForReview(chunks[c].document_id)

\* C4: approve is single-shot: no chunk ever has two kb_vectors records, so
\* approving a chunk that is already approved adds none.
C4_OneVectorPerChunk ==
    \A v, w \in DOMAIN kb_vectors :
        v # w => kb_vectors[v].chunk_id # kb_vectors[w].chunk_id

\* C5: when the enrichment gateway failed, the end of enrichChunkMetadata leaves
\* the chunk's ai_metadata as it was and its review_status pending.
C5_FailedEnrichmentKeepsMetadata ==
    [][ \A i \in CallIds :
           ( /\ calls[i].op = "enrichChunkMetadata"
             /\ calls[i].pc \in {"update", "catch"} /\ calls[i].err # NULL
             /\ calls'[i].pc = "done"
             /\ calls[i].chunk \in DOMAIN chunks )
           => /\ chunks'[calls[i].chunk].ai_metadata = chunks[calls[i].chunk].ai_metadata
              /\ chunks'[calls[i].chunk].review_status = "pending"
      ]_vars

\* the edges of the document lifecycle
StatusEdges ==
    { <<"pending", "processing">>, <<"processing", "review">>,
      <<"processing", "failed">>, <<"review", "submitted">>,
      <<"submitted", "completed">> }

\* C6: every change of a document's processing_status follows one of the
\* edges of the lifecycle (so nothing leaves failed).
C6_StatusFollowsEdges ==
    [][ \A d \in SameDocs :
           documents'[d].processing_status # documents[d].processing_status
           => <<documents[d].processing_status, documents'[d].processing_status>>
                 \in StatusEdges
      ]_vars

\* the caller's profile carries the admin role
HasAdminRole(u) == u \in DOMAIN profiles /\ profiles[u].role = "admin"

\* the reasons an admin gate gives
GateReasons ==
    {"Unauthorized", "Failed to verify admin privileges", "Admin privileges required"}

\* C7: processing_status becomes completed only in the step in which a caller
\* with the admin role starts approveDocument; approveDocument by any other
\* caller ends at once with a gate's reason and leaves the documents and the
\* curation queue as they were.
C7_CompletedOnlyByAdmin ==
    [][ /\ \A d \in SameDocs :
              ( /\ documents'[d].processing_status = "completed"
                /\ documents[d].processing_status # "completed" )
              => \E i \in CallIds :
                    /\ Starts(i, "approveDocument") /\ calls'[i].doc = d
                    /\ HasAdminRole(calls'[i].user)
        /\ \A i \in CallIds :
              (Starts(i, "approveDocument") /\ ~HasAdminRole(calls'[i].user))
              => /\ calls'[i].pc = "done" /\ calls'[i].err \in GateReasons
                 /\ documents' = documents
                 /\ curation_queue' = curation_queue
      ]_vars

\* a curator's attempt to complete an existing, uncompleted document was refused
C7_Witness ==
    \E i \in CallIds :
        /\ Threw(i, "approveDocument", "Admin privileges required")
        /\ calls[i].user = "cy"
        /\ calls[i].doc \in DOMAIN documents
        /\ documents[calls[i].doc].processing_status # "completed"
        /\ \E q \in DOMAIN curation_queue :
              /\ q \in MatchingQueueItems(documents[calls[i].doc])
              /\ curation_queue[q].status = "pending"

\* the total order user < curator < admin
Rank(role) == CASE role = "user" -> 1 [] role = "curator" -> 2 [] OTHER -> 3

\* C8: isRole(required) is true exactly when a profile is loaded, it is active
\* and its role is at least the required one.
C8_IsRoleIsActiveAndRank ==
    \A required \in UserRole :
        isRole(required) <=>
            /\ auth.profile # NoProfile
            /\ auth.profile.is_active
            /\ Rank(auth.profile.role) >= Rank(required)

\* the profile of a deactivated curator is loaded, and it passes no check
C8_Witness ==
    /\ auth.profile # NoProfile
    /\ auth.profile.role = "curator" /\ ~auth.profile.is_active
    /\ ~isRole("curator") /\ ~isRole("user")

\* the operations behind an admin gate
AdminOps ==
    {"approveDocument", "deleteDocument", "getAllProfiles", "updateUserRole",
     "assignKBsToCurator", "createKnowledgeBase", "deleteKnowledgeBase"}

\* C9: an admin operation started by a caller whose profile has role admin and
\* is_active = false ends at once with an error and changes nothing in the store.
C9_InactiveAdminPassesNoGate ==
    [][ \A i \in CallIds :
           ( /\ IsIdle(i) /\ calls'[i].op \in AdminOps
             /\ HasAdminRole(calls'[i].user)
             /\ ~profiles[calls'[i].user].is_active )
           => /\ calls'[i].pc = "done" /\ calls'[i].err # NULL
              /\ UNCHANGED store
      ]_vars

\* the number of filtered chunks of a batch
C10_Filtered(batch) == Cardinality({k \in DOMAIN batch : batch[k]})

\* the rows a step inserts
C10_NewRows == (DOMAIN chunks') \ (DOMAIN chunks)

C11_Running(i) ==
    calls[i].op = "processAndStoreDocument" /\ calls'[i].op = "processAndStoreDocument"

C12_NoChunksReturned == "No chunks returned from document processing"

\* C12: an empty result of the provider is a failure: the call goes on to the
\* insert only with a batch of at least one chunk, a document reaches review
\* only through a call that holds such a batch, and the call that got no chunk
\* inserts nothing and ends with the document failed.
C12_EmptyResultFails ==
    [][ /\ \A i \in CallIds :
              (C11_Running(i) /\ calls[i].pc = "gateway" /\ calls'[i].pc # "gateway")
              => IF calls'[i].pc = "insert"
                 THEN Len(calls'[i].batch) >= 1 /\ calls'[i].err = NULL
                 ELSE calls'[i].pc = "catch" /\ UNCHANGED store
        /\ \A d \in SameDocs :
              ( /\ documents'[d].processing_status = "review"
                /\ documents[d].processing_status # "review" )
              => \E i \in CallIds :
                    /\ calls[i].op = "processAndStoreDocument" /\ calls[i].doc = d
                    /\ Len(calls[i].batch) >= 1
        /\ \A i \in CallIds :
              ( /\ C11_Running(i) /\ calls[i].err = C12_NoChunksReturned
                /\ calls[i].pc # "done" )
              => /\ calls[i].pc = "catch" /\ calls'[i].pc = "done"
                 /\ calls'[i].err = C12_NoChunksReturned
                 /\ chunks' = chunks
                 /\ calls[i].doc \in DOMAIN documents
                    => documents'[calls[i].doc].processing_status = "failed"
      ]_vars

\* a run got no chunk: the document is failed and has no chunk row
C12_Witness ==
    \E i \in CallIds :
        /\ Threw(i, "processAndStoreDocument", C12_NoChunksReturned)
        /\ documents[calls[i].doc].processing_status = "failed"
        /\ documents[calls[i].doc].error_message = C12_NoChunksReturned
        /\ \A c \in DOMAIN chunks : chunks[c].document_id # calls[i].doc

C14_Reviewable(d) ==
    {c \in DOMAIN chunks : chunks[c].document_id = d /\ ~chunks[c].is_filtered}

\* every reviewable chunk of d is approved
C14_AllApproved(d) ==
    \A c \in C14_Reviewable(d) : chunks[c].review_status = "approved"

\* C14: in the review scenario, when the approveChunk call that leaves no
\* pending chunk returns, approved_chunks is the number k of chunks that were
\* pending and rejected_chunks is 0; submitDocument then passes its check and
\* sets submitted; the admin's approveDocument then sets completed and marks
\* the queue items with the document's (doc_type, source_url) completed.
C14_ReviewScenario ==
    [][ /\ \A i \in CallIds :
              ( /\ calls[i].op = "approveChunk" /\ calls[i].pc = "embed"
                /\ calls'[i].pc = "done" /\ C14_AllApproved(calls[i].doc) )
              => /\ calls'[i].err = NULL
                 /\ documents'[calls[i].doc].approved_chunks
                       = Cardinality(C14_Reviewable(calls[i].doc))
                 /\ documents'[calls[i].doc].approved_chunks
                       = documents'[calls[i].doc].total_chunks
                 /\ documents'[calls[i].doc].rejected_chunks = 0
        /\ \A i \in CallIds :
              ( /\ Starts(i, "submitDocument")
                /\ documents[calls'[i].doc].processing_status = "review"
                /\ C14_AllApproved(calls'[i].doc) )
              => calls'[i].pc = "update"
        /\ \A i \in CallIds :
              ( /\ calls[i].op = "submitDocument" /\ calls[i].pc = "update"
                /\ calls'[i].pc # "update" )
              => /\ calls'[i].pc = "done" /\ calls'[i].err = NULL
                 /\ documents'[calls[i].doc].processing_status = "submitted"
        /\ \A i \in CallIds :
              Starts(i, "approveDocument")
              => /\ calls'[i].pc = "queue"
                 /\ documents'[calls'[i].doc].processing_status = "completed"
        /\ \A i \in CallIds :
              ( /\ calls[i].op = "approveDocument" /\ calls[i].pc = "queue"
                /\ calls'[i].pc # "queue" )
              => /\ calls'[i].pc = "done" /\ calls'[i].err = NULL
                 /\ \A q \in DOMAIN curation_queue :
                       ( /\ curation_queue[q].kb_id = documents[calls[i].doc].doc_type
                         /\ curation_queue[q].url = documents[calls[i].doc].source_url )
                       => curation_queue'[q].status = "completed"
      ]_vars

\* the scenario ran to its end for a document of two chunks
C14_Witness ==
    \E i \in CallIds :
        /\ Returned(i, "approveDocument")
        /\ LET doc == documents[calls[i].doc]
           IN  /\ doc.processing_status = "completed"
               /\ doc.total_chunks = 2 /\ doc.approved_chunks = 2
               /\ doc.rejected_chunks = 0
               /\ curation_queue[1].status = "completed"
               /\ curation_queue[2].status = "pending"

\* slot i runs enrichChunkMetadata on chunk c and has not returned
C15_InFlight(i, c) ==
    /\ calls[i].op = "enrichChunkMetadata" /\ calls[i].chunk = c
    /\ calls[i].pc \in {"gateway", "update", "catch"}

\* C15: enriching is a lock: no chunk has two enrichChunkMetadata calls in
\* flight, so a call on a chunk that is enriching starts no gateway call.
C15_OneEnrichmentPerChunk ==
    \A c \in ChunkIds : \A i, j \in CallIds :
        (C15_InFlight(i, c) /\ C15_InFlight(j, c)) => i = j

C17_VectorsOf(vectors, c) == {v \in DOMAIN vectors : vectors[v].chunk_id = c}

\* C17: when approveChunk returns for a chunk it found pending or draft,
\* exactly one kb_vectors record exists for that chunk; and no step changes a
\* kb_vectors record that exists.
C17_OneVectorAtApproval ==
    [][ /\ \A i \in CallIds :
              ( /\ calls[i].op = "approveChunk" /\ calls[i].pc = "embed"
                /\ calls'[i].pc = "done"
                /\ calls[i].was \in {"pending", "draft"} )
              => Cardinality(C17_VectorsOf(kb_vectors', calls[i].chunk)) = 1
        /\ \A v \in (DOMAIN kb_vectors) \cap (DOMAIN kb_vectors') :
              kb_vectors'[v] = kb_vectors[v]
      ]_vars

\* C18: once approveChunk has set the chunk approved, nothing unwinds it:
\* whether or not the kb_vectors insert adds a record and however the
\* embedding ends, the call goes on to increment approved_chunks by one and
\* returns without an error, and the chunk stays approved with its reviewer.
C18_ApprovalSurvivesSideEffects ==
    [][ \A i \in CallIds :
           ( /\ calls[i].op = "approveChunk"
             /\ calls[i].pc \in {"vector", "count", "embed"}
             /\ calls'[i] # calls[i] )
           => /\ calls'[i].op = "approveChunk" /\ calls'[i].err = NULL
              /\ calls[i].pc = "vector" => calls'[i].pc = "count"
              /\ calls[i].pc = "count"
                 => /\ calls'[i].pc = "embed"
                    /\ calls[i].doc \in DOMAIN documents
                       => documents'[calls[i].doc].approved_chunks
                             = documents[calls[i].doc].approved_chunks + 1
              /\ calls[i].pc = "embed" => calls'[i].pc = "done"
              /\ calls[i].chunk \in DOMAIN chunks
                 => /\ chunks'[calls[i].chunk].review_status = "approved"
                    /\ chunks'[calls[i].chunk].reviewed_by = calls[i].user
      ]_vars

\* an approval returned although its kb_vectors insert failed
C18_Witness ==
    \E i \in CallIds :
        /\ Returned(i, "approveChunk")
        /\ chunks[calls[i].chunk].review_status = "approved"
        /\ chunks[calls[i].chunk].reviewed_by = "cy"
        /\ documents[calls[i].doc].approved_chunks = 1
        /\ C17_VectorsOf(kb_vectors, calls[i].chunk) = {}

\* C19: rejectChunk on a pending or draft chunk sets it rejected with the
\* caller as reviewed_by, then adds exactly one to the document's
\* rejected_chunks and leaves approved_chunks alone, and returns; no step of
\* the call touches kb_vectors.
C19_RejectEffects ==
    [][ \A i \in CallIds :
           (calls[i].op = "rejectChunk" /\ calls'[i] # calls[i])
           => /\ kb_vectors' = kb_vectors
              /\ ( /\ calls[i].pc = "update" /\ calls'[i].err = NULL
                   /\ calls[i].chunk \in DOMAIN chunks
                   /\ chunks[calls[i].chunk].review_status \in {"pending", "draft"} )
                 => /\ calls'[i].pc = "count"
                    /\ chunks'[calls[i].chunk].review_status = "rejected"
                    /\ chunks'[calls[i].chunk].reviewed_by = calls[i].user
                    /\ documents' = documents
              /\ (calls[i].pc = "count" /\ calls[i].doc \in DOMAIN documents)
                 => /\ calls'[i].pc = "done" /\ calls'[i].err = NULL
                    /\ documents'[calls[i].doc].rejected_chunks
                          = documents[calls[i].doc].rejected_chunks + 1
                    /\ documents'[calls[i].doc].approved_chunks
                          = documents[calls[i].doc].approved_chunks
                    /\ chunks' = chunks
      ]_vars

\* the rejection of the only pending chunk of a document returned
C19_Witness ==
    \E i \in CallIds :
        /\ Returned(i, "rejectChunk")
        /\ ~chunks[calls[i].chunk].is_filtered
        /\ chunks[calls[i].chunk].review_status = "rejected"
        /\ chunks[calls[i].chunk].reviewed_by = "cy"
        /\ documents[calls[i].doc].total_chunks = 1
        /\ documents[calls[i].doc].rejected_chunks = 1
        /\ documents[calls[i].doc].approved_chunks = 0
        /\ kb_vectors = <<>>

\* the statuses a review can still change
C20_NonTerminal == ReviewStatus \ {"approved", "rejected"}

\* C20: saveChunkDraft on a chunk in a non-terminal status makes it draft
\* with the given notes ('' as null), the given metadata and the caller as
\* reviewer; it changes no other chunk, no document (counters and
\* processing_status stay) and no kb_vectors record; when its update fails it
\* changes nothing.
C20_DraftEffects ==
    [][ \A i \in CallIds :
           Starts(i, "saveChunkDraft")
           => LET c == calls'[i].chunk
              IN  /\ calls'[i].pc = "done"
                  /\ documents' = documents
                  /\ kb_vectors' = kb_vectors
                  /\ DOMAIN chunks' = DOMAIN chunks
                  /\ \A o \in DOMAIN chunks : o # c => chunks'[o] = chunks[o]
                  /\ calls'[i].err # NULL => chunks' = chunks
                  /\ ( /\ calls'[i].err = NULL /\ c \in DOMAIN chunks
                       /\ chunks[c].review_status \in C20_NonTerminal )
                     => /\ chunks'[c].review_status = "draft"
                        /\ chunks'[c].curator_notes
                              = (IF calls'[i].notes = "" THEN NULL ELSE calls'[i].notes)
                        /\ chunks'[c].ai_metadata = calls'[i].meta
                        /\ chunks'[c].reviewed_by = calls'[i].user
                        /\ chunks'[c].document_id = chunks[c].document_id
                        /\ chunks'[c].confidence_score = chunks[c].confidence_score
      ]_vars

\* a draft with empty notes and the metadata of an enrichment was saved
C20_Witness ==
    \E i \in CallIds :
        /\ Returned(i, "saveChunkDraft")
        /\ calls[i].notes = ""
        /\ "topic" \in DOMAIN calls[i].meta
        /\ chunks[calls[i].chunk].review_status = "draft"
        /\ chunks[calls[i].chunk].curator_notes = NULL
        /\ chunks[calls[i].chunk].ai_metadata = calls[i].meta
        /\ documents[chunks[calls[i].chunk].document_id].processing_status = "review"
        /\ documents[chunks[calls[i].chunk].document_id].approved_chunks = 0

\* C21: getChunksForReview(document) returns, without repeats, exactly the
\* chunks of that document whose review_status is pending, ordered by
\* ascending confidence_score (a chunk without a score after the scored ones);
\* chunks in any other status are not in the list, and getChunk returns a
\* stored chunk by id whatever its status.  Neither call changes the store.
C21_PendingListAscending ==
    [][ \A i \in CallIds :
           /\ ( Starts(i, "getChunksForReview") /\ calls'[i].err = NULL )
              => LET s == calls'[i].list
                     d == calls'[i].doc
                 IN  /\ \A j, k \in DOMAIN s : j # k => s[j] # s[k]
                     /\ {s[j] : j \in DOMAIN s}
                           = {c \in DOMAIN chunks : /\ chunks[c].document_id = d
                                                    /\ chunks[c].review_status = "pending"}
                     /\ \A j, k \in DOMAIN s :
                           ( /\ j < k
                             /\ chunks[s[j]].confidence_score # NoScore
                             /\ chunks[s[k]].confidence_score # NoScore )
                           => chunks[s[j]].confidence_score <= chunks[s[k]].confidence_score
                     /\ \A j, k \in DOMAIN s :
                           ( j < k /\ chunks[s[j]].confidence_score = NoScore )
                           => chunks[s[k]].confidence_score = NoScore
                     /\ UNCHANGED store
           /\ ( Starts(i, "getChunk") /\ calls'[i].chunk \in DOMAIN chunks )
              => /\ calls'[i].err = NULL
                 /\ calls'[i].was = chunks[calls'[i].chunk].review_status
                 /\ calls'[i].meta = chunks[calls'[i].chunk].ai_metadata
                 /\ UNCHANGED store
      ]_vars

\* a list of two pending chunks came back with the less confident one first
C21_Witness ==
    \E i \in CallIds :
        /\ Returned(i, "getChunksForReview")
        /\ Len(calls[i].list) = 2
        /\ \A c \in DOMAIN chunks : chunks[c].review_status = "pending"
        /\ chunks[calls[i].list[1]].confidence_score = DefaultLowConfidence
        /\ chunks[calls[i].list[2]].confidence_score > DefaultLowConfidence

\* a chunk that is in no review list was read by id
C21_ReadById ==
    \E i \in CallIds :
        /\ Returned(i, "getChunk")
        /\ calls[i].was \in {"draft", "enriching", "filtered", "approved", "rejected"}

\* C22: what a curator is shown is scoped to the assigned knowledge bases:
\* every document in the list loaded for a curator has its doc_type in the
\* curator's assigned_kbs, and every queue item shown to a curator has its
\* kb_id in the curator's assigned_kbs, whatever the assigned set is.
C22_CuratorSeesAssignedOnly ==
    [][ \A i \in CallIds :
           LET u == calls'[i].user
           IN  /\ ( Starts(i, "loadDocuments") /\ profiles[u].role = "curator" )
                  => \A d \in calls'[i].rows :
                        documents[d].doc_type \in profiles[u].assigned_kbs
               /\ ( Starts(i, "loadData") /\ profiles[u].role = "curator" )
                  => \A q \in calls'[i].rows :
                        curation_queue[q].kb_id \in profiles[u].assigned_kbs
      ]_vars

\* the queue half of C22 on its own
C22_QueueScoped ==
    [][ \A i \in CallIds :
           ( /\ Starts(i, "loadData")
             /\ calls'[i].err = NULL
             /\ profiles[calls'[i].user].role = "curator" )
           => calls'[i].rows
                 = {q \in DOMAIN curation_queue :
                      curation_queue[q].kb_id \in profiles[calls'[i].user].assigned_kbs}
      ]_vars

\* the document half of C22 for curators with at least one assigned knowledge base
C22_DocumentsScopedWhenAssigned ==
    [][ \A i \in CallIds :
           ( /\ Starts(i, "loadDocuments")
             /\ calls'[i].err = NULL
             /\ profiles[calls'[i].user].role = "curator"
             /\ profiles[calls'[i].user].assigned_kbs # {} )
           => calls'[i].rows
                 = {d \in DOMAIN documents :
                      documents[d].doc_type \in profiles[calls'[i].user].assigned_kbs}
      ]_vars

C23_Requests == {"getAllProfiles", "updateUserRole", "assignKBsToCurator",
                 "createKnowledgeBase", "deleteKnowledgeBase", "approveDocument"}

C23_Refusals == {"Unauthorized", "Admin privileges required"}

\* C23: a request to the admin-api function is refused exactly when the
\* caller is not signed in or the stored profile of the caller does not have
\* the role admin, whatever the request body says; a refused request ends
\* with an error, returns no data and changes nothing in the store, and only
\* a request that passed the check reads the profiles or writes.
C23_AdminVerifiedFirst ==
    [][ \A i \in CallIds :
           ( IsIdle(i) /\ calls'[i].op \in C23_Requests )
           => LET u     == calls'[i].user
                  admin == /\ u # NoSession
                           /\ u \in DOMAIN profiles
                           /\ profiles[u].role = "admin"
              IN  /\ (calls'[i].err \in C23_Refusals) <=> ~admin
                  /\ ~admin => /\ UNCHANGED store
                               /\ calls'[i].pc = "done"
                               /\ calls'[i].n = 0
      ]_vars

\* a curator's update-role request was refused while the curator's stored
\* role is still curator and a user the request could have named is one too
C23_Witness ==
    /\ Threw(1, "updateUserRole", "Admin privileges required")
    /\ calls[1].user = "cy"
    /\ profiles["cy"].role = "curator"
    /\ profiles["uma"].role = "curator"

\* C24: an upload that is not authorized touches nothing: when uploadDocument
\* is called without a session (or by a caller the storage policy does not
\* admit) it ends with an error, no object is added to the bucket and no
\* documents row is created; the rest of the store is unchanged as well.
C24_UnauthorizedUploadTouchesNothing ==
    [][ \A i \in CallIds :
           ( /\ Starts(i, "uploadDocument")
             /\ \/ calls'[i].user = NoSession
                \/ calls'[i].user \notin DOMAIN profiles
                \/ profiles[calls'[i].user].role = "user"
                \/ ~profiles[calls'[i].user].is_active )
           => /\ calls'[i].pc = "done" /\ calls'[i].err # NULL
              /\ storage' = storage
              /\ documents' = documents
              /\ UNCHANGED store
      ]_vars

\* an upload of a new source without a session failed; bucket and table are empty
C24_Witness ==
    \E i \in CallIds :
        /\ Threw(i, "uploadDocument", "Upload failed")
        /\ calls[i].user = NoSession
        /\ calls[i].kb \in knowledge_bases
        /\ storage = 0
        /\ documents = <<>>

\* the queue items with the kb_id and url of document d
C25_Matching(d) ==
    {q \in DOMAIN curation_queue :
        /\ d \in DOMAIN documents
        /\ documents[d].source_url # NULL
        /\ curation_queue[q].kb_id = documents[d].doc_type
        /\ curation_queue[q].url = documents[d].source_url}

\* slot i takes the queue step of approveDocument
C25_QueueStep(i) ==
    /\ calls[i].op = "approveDocument" /\ calls[i].pc = "queue"
    /\ calls'[i].pc # "queue"

\* C25: a curation queue item becomes completed only in the queue step of an
\* approveDocument on a document whose doc_type and source_url equal the
\* item's kb_id and url, and a new item is never completed; that step leaves
\* every other queue item and every document as they were, and it ends
\* without an error also when no item matches or the document has no
\* source_url.
C25_CompletedOnlyByMatchingApproval ==
    [][ /\ \A q \in DOMAIN curation_queue' :
              ( /\ curation_queue'[q].status = "completed"
                /\ q \in DOMAIN curation_queue => curation_queue[q].status # "completed" )
              => /\ q \in DOMAIN curation_queue
                 /\ \E i \in CallIds : C25_QueueStep(i) /\ q \in C25_Matching(calls[i].doc)
        /\ \A i \in CallIds :
              C25_QueueStep(i)
              => /\ calls'[i].pc = "done" /\ calls'[i].err = NULL
                 /\ DOMAIN curation_queue' = DOMAIN curation_queue
                 /\ \A q \in DOMAIN curation_queue :
                       IF q \in C25_Matching(calls[i].doc)
                       THEN curation_queue'[q]
                               = [curation_queue[q] EXCEPT !.status = "completed"]
                       ELSE curation_queue'[q] = curation_queue[q]
                 /\ documents' = documents
      ]_vars

\* an approval completed the one matching item and left the item of the other
\* knowledge base with the same url pending
C25_Witness ==
    \E i \in CallIds :
        /\ Returned(i, "approveDocument")
        /\ calls[i].doc \in DOMAIN documents
        /\ C25_Matching(calls[i].doc) = {1}
        /\ curation_queue[1].status = "completed"
        /\ 2 \in DOMAIN curation_queue
        /\ curation_queue[2].url = curation_queue[1].url
        /\ curation_queue[2].status = "pending"

\* an approval succeeded for a document that no queue item matches
C25_OrphanTolerated ==
    \E i \in CallIds :
        /\ Returned(i, "approveDocument")
        /\ calls[i].doc \in DOMAIN documents
        /\ documents[calls[i].doc].processing_status = "completed"
        /\ C25_Matching(calls[i].doc) = {}
        /\ curation_queue # <<>>

\* C26: when the provider call of enrichChunk, enrichChunkWithGemini or
\* enrichChunkWithOpenAI fails, the operation does not raise: it returns the
\* fixed metadata with topic 'Unknown', an empty subtopic, relevance_score
\* 0.5, no use_cases, no key_concepts and confidence 0.3 (scores in tenths).
C26_ProviderErrorGivesDefault ==
    \A i \in CallIds :
        ( /\ calls[i].op \in Gateways /\ calls[i].pc = "done"
          /\ calls[i].was = "provider_error" )
        => /\ calls[i].err = NULL
           /\ calls[i].meta = [topic |-> "Unknown", subtopic |-> "",
                               relevance_score |-> 5, use_cases |-> <<>>,
                               key_concepts |-> <<>>, confidence |-> 3]

\* two implementations answered a provider error with the default metadata
C26_Witness ==
    /\ calls[1].op = "enrichChunkWithGemini" /\ calls[1].pc = "done"
    /\ calls[1].was = "provider_error" /\ calls[1].meta = DefaultMetadata
    /\ calls[2].op = "enrichChunkWithOpenAI" /\ calls[2].pc = "done"
    /\ calls[2].was = "provider_error" /\ calls[2].meta = DefaultMetadata

\* the one way the operation raises: the flow id is not configured
C26_RaisesUnconfigured ==
    \E i \in CallIds :
        /\ calls[i].op = "enrichChunk" /\ calls[i].pc = "done"
        /\ calls[i].was = "not_configured" /\ calls[i].err # NULL

C27_FallbackProducesChunks ==
    [][ \A i \in CallIds :
           ( /\ calls[i].op = "processAndStoreDocument" /\ calls[i].pc = "gateway"
             /\ calls'[i].pc # "gateway"
             /\ calls'[i].was = "direct_gemini" /\ calls'[i].notes = "chunking_failed" )
           => \/ /\ calls'[i].pc = "insert"
                 /\ Len(calls'[i].batch) > 0
                 /\ \A k \in DOMAIN calls'[i].batch : ~calls'[i].batch[k]
              \/ /\ calls'[i].pc = "catch"
                 /\ calls'[i].err = "No chunks returned from document processing"
      ]_vars

C27_FallbackWitness ==
    \E i \in CallIds :
        /\ Returned(i, "processAndStoreDocument")
        /\ calls[i].was = "direct_gemini" /\ calls[i].notes = "chunking_failed"
        /\ calls[i].n = 2
        /\ documents[calls[i].doc].processing_status = "review"

\* the chunks of document d with the given review_status
C28_Decided(d, status) ==
    {c \in DOMAIN chunks : chunks[c].document_id = d /\ chunks[c].review_status = status}

\* the calls of op on a chunk of d that have made their decision and not yet
\* counted it
C28_Uncounted(d, op, pcs) ==
    {i \in CallIds : calls[i].op = op /\ calls[i].doc = d /\ calls[i].pc \in pcs}

\* C28: with two curators deciding distinct chunks of a document at the same
\* time no increment is lost: approved_chunks is the number of approvals made
\* less those whose count step is still to come, and rejected_chunks likewise;
\* so when all calls are complete the two counters are the numbers of
\* approve and reject calls that succeeded.
C28_NoLostIncrement ==
    \A d \in DOMAIN documents :
        /\ documents[d].approved_chunks
              = Cardinality(C28_Decided(d, "approved"))
                   - Cardinality(C28_Uncounted(d, "approveChunk", {"vector", "count"}))
        /\ documents[d].rejected_chunks
              = Cardinality(C28_Decided(d, "rejected"))
                   - Cardinality(C28_Uncounted(d, "rejectChunk", {"count"}))

\* two approvals of the two chunks of a document ran at the same time and
\* both are complete: the counter is two
C28_Witness ==
    /\ \A i \in CallIds : calls[i].op = "approveChunk" /\ calls[i].pc = "done"
                            /\ calls[i].err = NULL
    /\ \E d \in DOMAIN documents :
          /\ Cardinality(C28_Decided(d, "approved")) = 2
          /\ documents[d].approved_chunks = 2
          /\ documents[d].rejected_chunks = 0

\* an approval and a rejection are both about to count
C28_BothCounting ==
    /\ calls[1].op = "approveChunk" /\ calls[1].pc = "count"
    /\ calls[2].op = "rejectChunk" /\ calls[2].pc = "count"

\* slot i runs approveChunk, is at step pc and takes it
C29_Takes(i, pc) ==
    /\ calls[i].op = "approveChunk" /\ calls[i].pc = pc
    /\ calls'[i].pc # pc

\* slot i arrives at step pc of approveChunk
C29_Arrives(i, pc) ==
    /\ calls'[i].op = "approveChunk" /\ calls'[i].pc = pc
    /\ calls[i].pc # pc

\* C29: approveChunk does its work in this order and in no other: (a) the
\* chunk update that sets review_status approved and reviewed_by, and ends the
\* call when it fails; (b) the kb_vectors insert; (c) the increment of the
\* document's approved_chunks; (d) the embedding call, after which the call
\* returns.  Each step is reached only from the one before it, so the
\* embedding is attempted only after the chunk update succeeded.
C29_ApproveOrder ==
    [][ \A i \in CallIds :
           /\ C29_Takes(i, "update")
              => \/ /\ calls'[i].pc = "vector"
                    /\ chunks'[calls[i].chunk].review_status = "approved"
                    /\ chunks'[calls[i].chunk].reviewed_by = calls[i].user
                    /\ kb_vectors' = kb_vectors /\ documents' = documents
                 \/ /\ calls'[i].pc = "done"
                    /\ calls'[i].err = "Failed to approve chunk"
                    /\ UNCHANGED store
           /\ C29_Takes(i, "vector")
              => /\ calls'[i].pc = "count"
                 /\ chunks' = chunks /\ documents' = documents
                 /\ \/ kb_vectors' = kb_vectors
                    \/ \E v \in DOMAIN kb_vectors' :
                          /\ v \notin DOMAIN kb_vectors
                          /\ kb_vectors'[v].chunk_id = calls[i].chunk
                          /\ kb_vectors = Without(kb_vectors', {v})
           /\ C29_Takes(i, "count")
              => /\ calls'[i].pc = "embed"
                 /\ documents'[calls[i].doc].approved_chunks
                       = documents[calls[i].doc].approved_chunks + 1
                 /\ chunks' = chunks /\ kb_vectors' = kb_vectors
           /\ C29_Takes(i, "embed")
              => /\ calls'[i].pc = "done" /\ calls'[i].err = NULL
                 /\ UNCHANGED store
           /\ C29_Arrives(i, "vector") => C29_Takes(i, "update")
           /\ C29_Arrives(i, "count")  => C29_Takes(i, "vector")
           /\ C29_Arrives(i, "embed")  => C29_Takes(i, "count")
      ]_vars

\* an approval is about to attempt the embedding: its chunk is approved,
\* its vector record is there and it has been counted
C29_Witness ==
    \E i \in CallIds :
        /\ calls[i].op = "approveChunk" /\ calls[i].pc = "embed"
        /\ chunks[calls[i].chunk].review_status = "approved"
        /\ chunks[calls[i].chunk].reviewed_by = calls[i].user
        /\ \E v \in DOMAIN kb_vectors : kb_vectors[v].chunk_id = calls[i].chunk
        /\ documents[calls[i].doc].approved_chunks = 1

C30_Terminal == {"approved", "rejected"}

\* C30: approved and rejected are terminal: a chunk whose review_status is
\* approved or rejected keeps that status in every step of every operation.
C30_DecisionIsFinal ==
    [][ \A c \in SameChunks :
           chunks[c].review_status \in C30_Terminal
           => chunks'[c].review_status = chunks[c].review_status
      ]_vars

\* the enrichment part of C30: no step of enrichChunkMetadata changes the
\* status of a chunk that is approved or rejected
C30_EnrichmentKeepsDecision ==
    [][ \A c \in SameChunks :
           ( /\ chunks[c].review_status \in C30_Terminal
             /\ \E i \in CallIds :
                   \/ Starts(i, "enrichChunkMetadata")
                   \/ calls[i].op = "enrichChunkMetadata" /\ calls'[i] # calls[i] )
           => chunks'[c].review_status = chunks[c].review_status
      ]_vars

\* the enrichment part of C30 for enrichments that began before the decision:
\* a chunk decided while it was enriching keeps the decision when the
\* enrichment completes
C30_LateEnrichmentKeepsDecision ==
    [][ \A c \in SameChunks, i \in CallIds :
           ( /\ chunks[c].review_status \in C30_Terminal
             /\ calls[i].op = "enrichChunkMetadata" /\ calls[i].chunk = c
             /\ calls[i].pc \in {"update", "catch"}
             /\ calls'[i].pc = "done" )
           => chunks'[c].review_status = chunks[c].review_status
      ]_vars

\* C31: a document whose processing_status is submitted or completed has no
\* chunk with review_status pending, draft or enriching.
C31_SubmittedHasNoOpenChunk ==
    \A d \in DOMAIN documents :
        documents[d].processing_status \in {"submitted", "completed"}
        => PendingChunks(d) = {}

\* the first race of C31: at the status write of submitDocument the document
\* still has no pending, draft or enriching chunk
C31_CheckStillHoldsAtWrite ==
    [][ \A i \in CallIds :
           ( /\ calls[i].op = "submitDocument" /\ calls[i].pc = "update"
             /\ calls'[i].pc = "done" /\ calls'[i].err = NULL )
           => PendingChunks(calls[i].doc) = {}
      ]_vars

\* the second half of C31: no chunk of a submitted document becomes pending,
\* draft or enriching
C31_NoReopenAfterSubmit ==
    [][ \A c \in SameChunks :
           ( /\ chunks[c].document_id \in DOMAIN documents
             /\ documents[chunks[c].document_id].processing_status = "submitted"
             /\ chunks[c].review_status \notin BlockingStatus )
           => chunks'[c].review_status \notin BlockingStatus
      ]_vars

\* no call is between its first and its last step
C32_Quiet == \A i \in CallIds : calls[i].pc \in {"idle", "done"}

\* C32: whenever no operation is in progress, approved_chunks is the number
\* of the document's chunks with review_status approved and rejected_chunks
\* the number of its chunks with review_status rejected.
C32_CountersMatchStatuses ==
    C32_Quiet
    => \A d \in DOMAIN documents :
          /\ documents[d].approved_chunks
                = Cardinality({c \in DOMAIN chunks : /\ chunks[c].document_id = d
                                                     /\ chunks[c].review_status = "approved"})
          /\ documents[d].rejected_chunks
                = Cardinality({c \in DOMAIN chunks : /\ chunks[c].document_id = d
                                                     /\ chunks[c].review_status = "rejected"})

\* C33: every kb_vectors record refers to a chunk whose review_status is
\* approved.
C33_VectorsOfApprovedChunks ==
    \A v \in DOMAIN kb_vectors :
        /\ kb_vectors[v].chunk_id \in DOMAIN chunks
        /\ chunks[kb_vectors[v].chunk_id].review_status = "approved"

(***************************************************************************)
(* SpecConfidence: one session uploads, processes and enriches, and the    *)
(* flow answers with every combination of a present, absent or zero        *)
(* confidence and relevance_score.                                         *)
(***************************************************************************)
ConfidenceValues == {0, 10}
RelevanceValues  == {0, 8}

ConfidenceAnswers ==
    { [topic |-> "Interop"] }
    \cup { [topic |-> "Interop", confidence |-> x] : x \in ConfidenceValues }
    \cup { [topic |-> "Interop", relevance_score |-> y] : y \in RelevanceValues }
    \cup { [topic |-> "Interop", confidence |-> x, relevance_score |-> y] :
              x \in ConfidenceValues, y \in RelevanceValues }

NextConfidence ==
    \/ \E i \in OneSession, docType \in UploadKbs, sourceUrl \in QueuedUrls :
          UploadDocument(i, "cy", docType, sourceUrl)
    \/ \E i \in OneSession, d \in DocIds :
          /\ d \in DOMAIN documents /\ documents[d].processing_status = "pending"
          /\ ProcessStart(i, d)
    \/ \E i \in OneSession, raised \in Working, batch \in Batches :
          ProcessGateway(i, raised, batch)
    \/ \E i \in OneSession, chunksError \in Healthy : ProcessInsert(i, chunksError)
    \/ \E i \in OneSession : ProcessReview(i)
    \/ \E i \in OneSession : ProcessCatch(i)
    \/ \E i \in OneSession, c \in ChunkIds : EnrichStart(i, c)
    \/ \E i \in OneSession, outcome \in EnrichOutcomes, answer \in ConfidenceAnswers :
          EnrichGateway(i, outcome, answer)
    \/ \E i \in OneSession : EnrichUpdate(i)
    \/ \E i \in OneSession : EnrichCatch(i)
    \/ \E i \in OneSession : Return(i)

SpecConfidence == Init /\ [][NextConfidence]_vars

\* the update of a successful enrichment is the step of call i
EnrichmentStored(i) ==
    /\ calls[i].op = "enrichChunkMetadata" /\ calls[i].pc = "update"
    /\ calls'[i].pc = "done"
    /\ calls[i].chunk \in DOMAIN chunks

\* the explicit confidence when present, else the relevance score when
\* present, else the default
PreferredScore(m) ==
    IF "confidence" \in DOMAIN m THEN m["confidence"]
    ELSE IF "relevance_score" \in DOMAIN m THEN m["relevance_score"]
    ELSE FallbackScore

\* C34: the update of a successful enrichment stores as confidence_score the
\* result's confidence when the result has one, otherwise its relevance_score
\* when it has one, otherwise 0.5, whatever the values in [0,1].
C34_ScoreFollowsPreference ==
    [][ \A i \in CallIds :
           EnrichmentStored(i)
           => chunks'[calls[i].chunk].confidence_score
                 = PreferredScore(calls[i].aiMetadata)
      ]_vars

\* C34, away from zero: the same for results whose scores are not 0
C34_NonZeroScoreFollowsPreference ==
    [][ \A i \in CallIds :
           ( /\ EnrichmentStored(i)
             /\ Score(calls[i].aiMetadata, "confidence") # 0
             /\ Score(calls[i].aiMetadata, "relevance_score") # 0 )
           => chunks'[calls[i].chunk].confidence_score
                 = PreferredScore(calls[i].aiMetadata)
      ]_vars

Limits == {1, 2}

\* pending chunks of the document whose ai_metadata is null
WithoutMetadata(documentId) ==
    { c \in DOMAIN chunks :
         /\ chunks[c].document_id = documentId
         /\ chunks[c].review_status = "pending"
         /\ chunks[c].ai_metadata = NullMeta }

\* the pending chunks of the document, whatever their metadata
AnyPending(documentId) ==
    { c \in DOMAIN chunks :
         /\ chunks[c].document_id = documentId
         /\ chunks[c].review_status = "pending" }

\* .limit(limit) without an order: any limit of the rows, in any order
Selections(rows, limit) ==
    { s \in UNION { [1 .. k -> rows] : k \in 0 .. MaxRows } :
         /\ \A a, b \in DOMAIN s : a # b => s[a] # s[b]
         /\ Len(s) = IF Cardinality(rows) < limit THEN Cardinality(rows) ELSE limit }

enrichDocumentChunks(i, documentId, limit, fetchError) ==
    /\ FreeSlot(i)
    /\ documentId \in KnownDocs
    /\ IF fetchError
       THEN Done(i, [op |-> "enrichDocumentChunks", doc |-> documentId, n |-> 0,
                     err |-> "Failed to fetch chunks for enrichment"])
       ELSE \E s \in Selections(WithoutMetadata(documentId), limit) :
               IF s = <<>>
               THEN Done(i, [op |-> "enrichDocumentChunks", doc |-> documentId, n |-> 0])
               ELSE Begin(i, [op |-> "enrichDocumentChunks", pc |-> "loop",
                              doc |-> documentId, list |-> s, n |-> 0])
    /\ UNCHANGED <<store, nextId, auth>>

\* the loop calls enrichChunkMetadata on the next chunk
EnrichDocumentEach(i, j) ==
    /\ calls[i].op = "enrichDocumentChunks" /\ calls[i].pc = "loop"
    /\ calls[i].list # <<>>
    /\ i # j /\ IsIdle(j)
    /\ chunks' = Update(chunks, Head(calls[i].list), [review_status |-> "enriching"])
    /\ calls' = [calls EXCEPT
                    ![i] = Spread(calls[i], [pc |-> "await"]),
                    ![j] = Spread(Idle, [op |-> "enrichChunkMetadata", pc |-> "gateway",
                                         chunk |-> Head(calls[i].list)])]
    /\ UNCHANGED <<documents, kb_vectors, curation_queue, profiles, knowledge_bases,
                   nextId, auth, storage>>

\* enrichChunkMetadata has returned: enrichedCount++, the delay, the next turn
EnrichDocumentCounted(i, j) ==
    /\ calls[i].op = "enrichDocumentChunks" /\ calls[i].pc = "await"
    /\ i # j
    /\ calls[j].op = "enrichChunkMetadata" /\ calls[j].pc = "done"
    /\ calls' = [calls EXCEPT
                    ![i] = Spread(calls[i], [pc |-> "loop", list |-> Tail(calls[i].list),
                                             n |-> calls[i].n + 1]),
                    ![j] = Idle]
    /\ UNCHANGED <<store, nextId, auth>>

\* the list is through: return enrichedCount
EnrichDocumentReturn(i) ==
    /\ calls[i].op = "enrichDocumentChunks" /\ calls[i].pc = "loop"
    /\ calls[i].list = <<>>
    /\ Done(i, [op |-> "enrichDocumentChunks", doc |-> calls[i].doc, n |-> calls[i].n])
    /\ UNCHANGED <<store, nextId, auth>>

(***************************************************************************)
(* SpecFlow: the upload flow of one session (upload, process, enrich the   *)
(* document's chunks), drafts and single enrichments in between.           *)
(***************************************************************************)
FlowDrafts(c) == DraftInputs(c) \cup {NullMeta}

NextFlow ==
    \/ \E i \in OneSession, docType \in UploadKbs, sourceUrl \in QueuedUrls :
          UploadDocument(i, "cy", docType, sourceUrl)
    \/ \E i \in OneSession, d \in DocIds :
          /\ d \in DOMAIN documents /\ documents[d].processing_status = "pending"
          /\ ProcessStart(i, d)
    \/ \E i \in OneSession, raised \in Working, batch \in Batches :
          ProcessGateway(i, raised, batch)
    \/ \E i \in OneSession, chunksError \in Healthy : ProcessInsert(i, chunksError)
    \/ \E i \in OneSession : ProcessReview(i)
    \/ \E i \in OneSession : ProcessCatch(i)
    \/ \E i \in OneSession, d \in DocIds, limit \in Limits, fetchError \in BOOLEAN :
          enrichDocumentChunks(i, d, limit, fetchError)
    \/ \E i \in OneSession, j \in Background : EnrichDocumentEach(i, j)
    \/ \E i \in OneSession, j \in Background : EnrichDocumentCounted(i, j)
    \/ \E i \in OneSession : EnrichDocumentReturn(i)
    \/ \E i \in OneSession, c \in ChunkIds : EnrichStart(i, c)
    \/ \E i \in CallIds, outcome \in FlowOutcomes, answer \in EnrichResults :
          EnrichGateway(i, outcome, answer)
    \/ \E i \in CallIds : EnrichUpdate(i)
    \/ \E i \in CallIds : EnrichCatch(i)
    \/ \E i \in OneSession, c \in ChunkIds, notes \in ReviewNotes, u \in Reviewers :
          \E aiMetadata \in FlowDrafts(c) :
             SaveChunkDraft(i, c, notes, aiMetadata, u, FALSE)
    \/ \E i \in OneSession : Return(i)

SpecFlow == Init /\ [][NextFlow]_vars

\* C36: a call of enrichDocumentChunks on a document with a pending chunk,
\* whose select is answered, does not return 0: at least one chunk is taken
\* for enrichment.
C36_FlowEnrichesAChunk ==
    [][ \A i \in CallIds :
           ( /\ IsIdle(i)
             /\ calls'[i].op = "enrichDocumentChunks"
             /\ calls'[i].err = NULL
             /\ AnyPending(calls'[i].doc) # {} )
           => ~ (calls'[i].pc = "done" /\ calls'[i].n = 0)
      ]_vars

\* C36, the count: when enrichDocumentChunks returns a count above 0, a chunk
\* of the document carries the metadata of an enrichment.
C36_CountedMeansEnriched ==
    \A i \in CallIds :
       ( /\ calls[i].op = "enrichDocumentChunks" /\ calls[i].pc = "done"
         /\ calls[i].n > 0 )
       => \E c \in DOMAIN chunks :
             /\ chunks[c].document_id = calls[i].doc
             /\ chunks[c].ai_metadata # NullMeta
             /\ chunks[c].ai_metadata["last_updated"] = "enriched"

(***************************************************************************)
(* fetchProfile as the hook runs it: the promise cache, the profile query  *)
(* and the 10 second timer of each fetch.                                  *)
(***************************************************************************)
MaxFetches == 3
FetchIds   == 1 .. MaxFetches
FetchUsers == {"ada", "cy"}

\* delete profilePromiseCache.current[userId]
Uncached(cache, userId) == [u \in DOMAIN cache \ {userId} |-> cache[u]]

\* a fetchProfile call: the promise in the cache, or a new query and timer
FetchProfileCall(userId) ==
    /\ userId # NoSession
    /\ IF userId \in DOMAIN auth.profilePromiseCache
       THEN UNCHANGED auth
       ELSE /\ Len(auth.fetches) < MaxFetches
            /\ auth' = [auth EXCEPT
                 !.fetches = Append(@, [userId |-> userId, query |-> TRUE,
                                        timer |-> TRUE, settled |-> FALSE,
                                        timedOut |-> FALSE]),
                 !.profilePromiseCache =
                     Spread(@, [u \in {userId} |-> Len(auth.fetches) + 1])]
    /\ UNCHANGED <<store, nextId, calls>>

\* the profile query of fetch p is answered: the promise settles and its
\* finally block clears the cache entry of the user (the answer of a fetch
\* that has timed out is dropped)
ProfileQueryAnswers(p) ==
    /\ p \in DOMAIN auth.fetches
    /\ auth.fetches[p].query
    /\ auth' = [auth EXCEPT
         !.fetches[p].query = FALSE,
         !.fetches[p].settled = TRUE,
         !.profilePromiseCache =
             IF auth.fetches[p].settled THEN @
             ELSE Uncached(@, auth.fetches[p].userId)]
    /\ UNCHANGED <<store, nextId, calls>>

\* the timer of fetch p fires (timers of equal delay fire in the order they
\* were set): it clears the cache entry of the user and rejects the race;
\* the query stays in flight
ProfileTimeout(p) ==
    /\ p \in DOMAIN auth.fetches
    /\ auth.fetches[p].timer
    /\ \A q \in DOMAIN auth.fetches : q < p => ~auth.fetches[q].timer
    /\ auth' = [auth EXCEPT
         !.fetches[p].timer = FALSE,
         !.fetches[p].settled = TRUE,
         !.fetches[p].timedOut = ~auth.fetches[p].settled,
         !.profilePromiseCache = Uncached(@, auth.fetches[p].userId)]
    /\ UNCHANGED <<store, nextId, calls>>

NextFetch ==
    \/ \E userId \in FetchUsers : FetchProfileCall(userId)
    \/ \E p \in FetchIds : ProfileQueryAnswers(p)
    \/ \E p \in FetchIds : ProfileTimeout(p)

SpecFetch == Init /\ [][NextFetch]_vars

\* the profile queries of a user that are in flight
QueriesInFlight(userId) ==
    { p \in DOMAIN auth.fetches :
         auth.fetches[p].userId = userId /\ auth.fetches[p].query }

\* C37: at any time at most one profile query per user id is in flight.
C37_OneQueryPerUser ==
    \A userId \in FetchUsers : Cardinality(QueriesInFlight(userId)) <= 1

\* C37, without timeouts: at most one profile query per user id is in flight
\* among the fetches that have not timed out.
C37_OneQueryPerUserInTime ==
    \A userId \in FetchUsers :
       Cardinality({ p \in QueriesInFlight(userId) : ~auth.fetches[p].timedOut }) <= 1

\* C37, the cache: a query in flight whose fetch has not timed out is the
\* one the cache holds for its user.
C37_InFlightIsCached ==
    \A p \in DOMAIN auth.fetches :
       (auth.fetches[p].query /\ ~auth.fetches[p].timedOut)
       => /\ auth.fetches[p].userId \in DOMAIN auth.profilePromiseCache
          /\ auth.profilePromiseCache[auth.fetches[p].userId] = p

(***************************************************************************)
(* The effect of AuthProvider: each run sets a safety timeout, the first   *)
(* run starts initialize, and a change of profile?.id cleans the run up    *)
(* and runs the effect again.                                              *)
(***************************************************************************)
MaxRuns == 3
Runs    == 1 .. MaxRuns

\* profile?.id
ProfileId(profile) == IF profile = NoProfile THEN NULL ELSE profile.id

\* the variable mounted of the closure of initialize (the first run)
InitializeMounted == auth.run = 1

\* the effect runs: after the first render, and after a render in which
\* profile?.id differs from the one of the last run (the cleanup of that run
\* clears its safety timeout and sets its mounted to false)
EffectRun ==
    /\ auth.run < MaxRuns
    /\ auth.run = 0 \/ auth.dep # ProfileId(auth.profile)
    /\ auth' = [auth EXCEPT
         !.run = @ + 1,
         !.safetyTimeout = auth.run + 1,
         !.dep = ProfileId(auth.profile),
         !.initialize = IF @ = "idle" THEN "getSession" ELSE @]
    /\ UNCHANGED <<store, nextId, calls>>

\* a safety timeout that logs and leaves loading alone
SafetyTimeoutLogsOnly(r) ==
    /\ auth.safetyTimeout = r
    /\ auth' = [auth EXCEPT !.safetyTimeout = 0]
    /\ UNCHANGED <<store, nextId, calls>>

\* the safety timeout of run r fires
SafetyTimeout(r) ==
    /\ auth.safetyTimeout = r
    /\ auth' = [auth EXCEPT !.safetyTimeout = 0, !.loading = FALSE]
    /\ UNCHANGED <<store, nextId, calls>>

SessionOutcomes == {"session", "none", "aborted", "error"}

\* getSession returns to initialize
GetSessionReturns(outcome, userId) ==
    /\ auth.initialize = "getSession"
    /\ auth' =
         IF outcome = "session" /\ InitializeMounted
         THEN [auth EXCEPT !.user = userId, !.initialSession = userId,
                           !.initialize = "fetchProfile"]
         ELSE [auth EXCEPT !.initialize = "over",
                           !.loading = IF InitializeMounted THEN FALSE ELSE @]
    /\ UNCHANGED <<store, nextId, calls>>

\* fetchProfile returns to initialize
InitializeProfileReturns(failed) ==
    /\ auth.initialize = "fetchProfile"
    /\ LET p == fetchProfile(auth.initialSession, failed)
       IN  auth' = [auth EXCEPT
             !.initialize = "over",
             !.profile = IF InitializeMounted /\ p # NoProfile THEN p ELSE @,
             !.loading = IF InitializeMounted THEN FALSE ELSE @]
    /\ UNCHANGED <<store, nextId, calls>>

NextProvider ==
    \/ EffectRun
    \/ \E r \in Runs : SafetyTimeout(r)
    \/ \E outcome \in SessionOutcomes, userId \in Users :
          GetSessionReturns(outcome, userId)
    \/ \E failed \in BOOLEAN : InitializeProfileReturns(failed)
    \/ \E event \in AuthEvents, newUser \in Callers, failed \in BOOLEAN :
          /\ auth.run # 0
          /\ onAuthStateChange(event, newUser, failed)
    \/ \E failed \in BOOLEAN : refreshProfile(failed)

SpecProvider == Init /\ [][NextProvider]_vars

\* a timer that is set and not cleared fires; getSession, the profile fetch
\* and the auth-state callback need never return
TimersFire == \A r \in Runs : WF_vars(SafetyTimeout(r))

SpecProviderFair == SpecProvider /\ TimersFire

\* C38: once the effect of AuthProvider has run, loading eventually becomes
\* false, whatever getSession, the profile fetch and the auth-state callback do.
C38_LoadingCleared == (auth.run # 0) ~> (auth.loading = FALSE)

\* loading is false while getSession has still not returned
C38_Witness ==
    /\ auth.run # 0
    /\ auth.initialize = "getSession"
    /\ auth.loading = FALSE

\* C38, side: loading never goes back to true
C38_LoadingStaysCleared ==
    [][ auth.loading = FALSE => auth'.loading = FALSE ]_vars

\* initialize has ended in a run that was cleaned up, and loading is still true
C38_LeftToTheTimer ==
    /\ auth.run > 1
    /\ auth.initialize = "over"
    /\ auth.loading = TRUE

(***************************************************************************)
(* useCurator and ChunkReviewer: the loaded list, the current index, the   *)
(* stats, the approve and reject handlers (each captures the values of the *)
(* render it was clicked in) and the delayed nextChunk they schedule.      *)
(***************************************************************************)
getDocumentStats(documentId) ==
    [total   |-> documents[documentId].total_chunks,
     pending |-> Cardinality(getChunksForReview(documentId))]

\* chunks[currentChunkIndex] || null  (the index counts from 0)
CurrentChunk ==
    IF auth.curator.currentChunkIndex + 1 \in DOMAIN auth.curator.chunks
    THEN auth.curator.chunks[auth.curator.currentChunkIndex + 1]
    ELSE 0

HasNext == auth.curator.currentChunkIndex < Len(auth.curator.chunks) - 1
IsComplete == auth.curator.stats.pending = 0 /\ auth.curator.stats.total > 0

\* what ChunkReviewer renders
Screen ==
    IF auth.curator.error THEN "error"
    ELSE IF IsComplete \/ Len(auth.curator.chunks) = 0 THEN "all reviewed"
    ELSE IF CurrentChunk = 0 THEN "no chunk selected"
    ELSE "review"

\* the button 'Submit for Admin Review' is on the screen
OffersSubmit == Screen = "review" /\ IsComplete

SetCurator(fields) ==
    /\ auth' = [auth EXCEPT !.curator = Spread(@, fields)]
    /\ UNCHANGED <<store, nextId, calls>>

\* the effect of useCurator on documentId
CuratorLoadData(documentId, fetchError) ==
    /\ documentId \in DOMAIN documents
    /\ auth.curator.handler.pc = "idle"
    /\ IF fetchError
       THEN SetCurator([documentId |-> documentId, error |-> TRUE])
       ELSE \E list \in ReviewLists(documentId) :
               SetCurator([documentId |-> documentId, chunks |-> list,
                           stats |-> getDocumentStats(documentId),
                           currentChunkIndex |-> 0, error |-> FALSE])

nextChunk ==
    /\ auth.curator.documentId # 0
    /\ SetCurator([currentChunkIndex |->
                      IF HasNext THEN auth.curator.currentChunkIndex + 1
                      ELSE auth.curator.currentChunkIndex])

previousChunk ==
    /\ auth.curator.documentId # 0
    /\ SetCurator([currentChunkIndex |->
                      IF auth.curator.currentChunkIndex > 0
                      THEN auth.curator.currentChunkIndex - 1
                      ELSE auth.curator.currentChunkIndex])

goToChunk(index) ==
    /\ auth.curator.documentId # 0
    /\ SetCurator([currentChunkIndex |->
                      IF index >= 0 /\ index < Len(auth.curator.chunks)
                      THEN index ELSE auth.curator.currentChunkIndex])

\* refreshChunks called with index captured: the new list and stats, and the
\* index pulled back when the captured one is past the end of the new list
Refreshed(captured, list, documentId) ==
    Spread([chunks |-> list, stats |-> getDocumentStats(documentId)],
           IF captured >= Len(list)
           THEN [currentChunkIndex |-> IF Len(list) > 0 THEN Len(list) - 1 ELSE 0]
           ELSE <<>>)

refreshChunks(fetchError) ==
    /\ auth.curator.documentId \in DOMAIN documents
    /\ IF fetchError
       THEN SetCurator(<<>>)
       ELSE \E list \in ReviewLists(auth.curator.documentId) :
               SetCurator(Refreshed(auth.curator.currentChunkIndex, list,
                                    auth.curator.documentId))

HandlerKinds == {"handleApprove", "handleReject"}

\* a click on Approve or Reject: the handler of the render on the screen
HandleClick(kind) ==
    /\ Screen = "review"
    /\ auth.curator.handler.pc = "idle"
    /\ SetCurator([handler |-> [pc |-> "call", kind |-> kind, chunk |-> CurrentChunk,
                                currentChunkIndex |-> auth.curator.currentChunkIndex,
                                length |-> Len(auth.curator.chunks)]])

\* the handler calls approveChunk
HandleApproveCall(i, curatorNotes, userId) ==
    /\ auth.curator.handler.pc = "call"
    /\ auth.curator.handler.kind = "handleApprove"
    /\ ApproveFetch(i, auth.curator.handler.chunk, curatorNotes, userId)

\* the handler calls rejectChunk
HandleRejectCall(i, userId) ==
    /\ auth.curator.handler.pc = "call"
    /\ auth.curator.handler.kind = "handleReject"
    /\ RejectFetch(i, auth.curator.handler.chunk, userId)

\* setTimeout(() => nextChunk(), 300): nextChunk of the render with this
\* index and length
StaleNextChunk(closure, current) ==
    IF closure.currentChunkIndex < closure.length - 1 THEN current + 1 ELSE current

\* approveChunk or rejectChunk has returned to the handler: on an error the
\* alert; otherwise refreshChunks of the handler's render, and the delayed
\* nextChunk when that render had a next chunk
HandleReturn(i, fetchError) ==
    /\ auth.curator.handler.pc = "call"
    /\ calls[i].pc = "done" /\ calls[i].op \in {"approveChunk", "rejectChunk"}
    /\ End(i)
    /\ LET h == auth.curator.handler
           d == auth.curator.documentId
       IN  IF calls[i].err # NULL
           THEN auth' = [auth EXCEPT !.curator.handler = [pc |-> "idle"]]
           ELSE \E list \in ReviewLists(d) :
                  auth' = [auth EXCEPT !.curator =
                    Spread(Spread(@, IF fetchError THEN <<>>
                                     ELSE Refreshed(h.currentChunkIndex, list, d)),
                           [handler |-> [pc |-> "idle"],
                            timers  |-> IF h.currentChunkIndex < h.length - 1
                                           /\ h.length > 1
                                        THEN @.timers \cup
                                               {[currentChunkIndex |-> h.currentChunkIndex,
                                                 length |-> h.length]}
                                        ELSE @.timers])]
    /\ UNCHANGED <<store, nextId>>

\* the timer of a delayed nextChunk fires
NextChunkTimer(closure) ==
    /\ closure \in auth.curator.timers
    /\ SetCurator([timers |-> auth.curator.timers \ {closure},
                   currentChunkIndex |->
                       StaleNextChunk(closure, auth.curator.currentChunkIndex)])

Closures ==
    { [currentChunkIndex |-> k, length |-> n] : k \in 0 .. MaxChunks, n \in 0 .. MaxChunks }

NextReviewer ==
    \/ \E i \in OneSession, docType \in UploadKbs, sourceUrl \in QueuedUrls :
          UploadDocument(i, "cy", docType, sourceUrl)
    \/ \E i \in OneSession, d \in DocIds :
          /\ d \in DOMAIN documents /\ documents[d].processing_status = "pending"
          /\ ProcessStart(i, d)
    \/ \E i \in OneSession, raised \in Working, batch \in Batches :
          ProcessGateway(i, raised, batch)
    \/ \E i \in OneSession, chunksError \in Healthy : ProcessInsert(i, chunksError)
    \/ \E i \in OneSession : ProcessReview(i)
    \/ \E i \in OneSession : ProcessCatch(i)
    \/ \E d \in DocIds, fetchError \in BOOLEAN : CuratorLoadData(d, fetchError)
    \/ nextChunk
    \/ previousChunk
    \/ \E index \in 0 .. MaxChunks : goToChunk(index)
    \/ \E fetchError \in BOOLEAN : refreshChunks(fetchError)
    \/ \E kind \in HandlerKinds : HandleClick(kind)
    \/ \E i \in OneSession, notes \in ReviewNotes, u \in Reviewers :
          HandleApproveCall(i, notes, u)
    \/ \E i \in OneSession, updateError \in BOOLEAN : ApproveUpdate(i, updateError)
    \/ \E i \in OneSession, vectorError \in Healthy : ApproveVector(i, vectorError)
    \/ \E i \in OneSession : ApproveCount(i)
    \/ \E i \in OneSession, embedded \in Working : ApproveEmbed(i, embedded)
    \/ \E i \in OneSession, u \in Reviewers : HandleRejectCall(i, u)
    \/ \E i \in OneSession, updateError \in BOOLEAN : RejectUpdate(i, updateError)
    \/ \E i \in OneSession : RejectCount(i)
    \/ \E i \in OneSession, fetchError \in BOOLEAN : HandleReturn(i, fetchError)
    \/ \E closure \in Closures : NextChunkTimer(closure)
    \/ \E i \in OneSession :
          /\ calls[i].op \notin {"approveChunk", "rejectChunk"}
          /\ Return(i)

SpecReviewer == Init /\ [][NextReviewer]_vars

\* C39: whenever the loaded list is non-empty, the current index is a
\* position of the list: 0 <= currentChunkIndex < chunks.length.
C39_IndexInList ==
    Len(auth.curator.chunks) > 0
    => /\ 0 <= auth.curator.currentChunkIndex
       /\ auth.curator.currentChunkIndex < Len(auth.curator.chunks)

\* C39, the timer: a delayed nextChunk that fires on a valid index leaves a
\* valid index.
C39_TimerKeepsIndexInList ==
    [][ ( /\ C39_IndexInList
          /\ auth'.curator.timers # auth.curator.timers
          /\ auth'.curator.timers \subseteq auth.curator.timers )
        => C39_IndexInList' ]_vars

\* C39, the refresh: the refresh of a handler that ran on a valid index
\* leaves a valid index.
C39_HandlerKeepsIndexInList ==
    [][ ( /\ C39_IndexInList
          /\ auth.curator.handler.pc = "call"
          /\ auth'.curator.handler.pc = "idle" )
        => C39_IndexInList' ]_vars

\* C40: whenever the reviewer holds a loaded document in review whose
\* isComplete flag is true, the button 'Submit for Admin Review' is offered.
C40_CompleteOffersSubmit ==
    ( /\ auth.curator.documentId \in DOMAIN documents
      /\ documents[auth.curator.documentId].processing_status = "review"
      /\ ~auth.curator.error
      /\ IsComplete )
    => OffersSubmit

\* C40, side: the button is on no screen
C40_SubmitNeverOffered == ~OffersSubmit

\* a loaded document in review with every chunk decided
C40_CompleteLoaded ==
    /\ auth.curator.documentId \in DOMAIN documents
    /\ documents[auth.curator.documentId].processing_status = "review"
    /\ ~auth.curator.error
    /\ IsComplete
    /\ PendingChunks(auth.curator.documentId) = {}

====
